---- MODULE Spec2Model ----
(***************************************************************************)
(* A model of edgar/files/html.py: the style cascade (StyleInfo.merge),    *)
(* the table reconstructor (SECHTMLParser._process_table), the adjacent-   *)
(* node merger (_merge_adjacent_nodes) and the recursive node builder      *)
(* (_process_element and the two traversal modes).                         *)
(*                                                                         *)
(* Python's Optional[T] is a sequence of length at most one: None is <<>>  *)
(* and a present value v is <<v>>.  A str is a sequence of one-character   *)
(* strings, so that strip, startswith and concatenation are computed.      *)
(***************************************************************************)
EXTENDS Integers, Sequences, FiniteSets, TLC

VARIABLES
  \* StyleInfo.merge: the receiver, the argument and the returned object
  child, parent, merged_style,
  \* _merge_adjacent_nodes: the argument, the loop position, the locals
  \* `current` and `merged`, and where control is
  nodes, node_i, current, merged, merge_pc,
  \* _process_table: the table element and the names of its ancestors, the
  \* positions in the loops over rows and cells, the loop variable `td`,
  \* what process_cell returned for it, the locals `cells`, `row` and
  \* `rows`, what the call returned or raised, and where control is
  table_el, table_anc, tr_i, td_i, td, cell_out, cells, row, rows, table_ret,
  table_pc,
  \* parse: the body element of the root (None when there is none), the
  \* paths of the elements carrying the has_table attribute, style_stack,
  \* the call stack of _parse_element, _process_element and
  \* _process_structured_content, the value or exception on its way to the
  \* caller, what parse returned, and where parse is
  body, has_table, style_stack, frames, ret, document, parse_pc,
  \* a call of one of the side-effect-free functions (Width.to_chars,
  \* _looks_like_header, _determine_heading_level, create_node and the node
  \* constructors, merge_styles): the function with its arguments, and what
  \* it returned or raised
  call, call_ret

styleVars == <<child, parent, merged_style>>
mergeVars == <<nodes, node_i, current, merged, merge_pc>>
tableVars ==
  <<table_el, table_anc, tr_i, td_i, td, cell_out, cells, row, rows,
    table_ret, table_pc>>
parseVars == <<body, has_table, style_stack, frames, ret, document, parse_pc>>
callVars == <<call, call_ret>>
vars == <<styleVars, mergeVars, tableVars, parseVars, callVars>>

\* What the actions of one part of the model leave alone.
notStyleVars == <<mergeVars, tableVars, parseVars, callVars>>
notMergeVars == <<styleVars, tableVars, parseVars, callVars>>
notTableVars == <<styleVars, mergeVars, parseVars, callVars>>
notParseVars == <<styleVars, mergeVars, tableVars, callVars>>
notCallVars == <<styleVars, mergeVars, tableVars, parseVars>>

None == <<>>
Some(v) == <<v>>

\* The sequences over S of length n, and of length at most n.
RECURSIVE SeqsOfLen(_, _)
SeqsOfLen(S, n) ==
  IF n = 0 THEN {<<>>}
  ELSE {Append(q, x) : q \in SeqsOfLen(S, n - 1), x \in S}

SeqsUpTo(S, n) == UNION {SeqsOfLen(S, k) : k \in 0..n}

(***************************************************************************)
(* Width and StyleInfo                                                     *)
(***************************************************************************)
Width(value, unit) == [value |-> value, unit |-> unit]

\* Python's round(n / d) for d > 0: to the nearest integer, a tie to the
\* even one.
RoundHalfEven(n, d) ==
  LET a == IF n < 0 THEN -n ELSE n
      q == a \div d
      r == a % d
      m == IF 2 * r < d THEN q
           ELSE IF 2 * r > d THEN q + 1
           ELSE IF q % 2 = 0 THEN q ELSE q + 1
  IN IF n < 0 THEN -m ELSE m

Min(a, b) == IF a <= b THEN a ELSE b

\* Width._to_inches: the `conversions` table, each factor as the fraction
\* <<numerator, denominator>>.
conversions(unit) ==
  CASE unit = "in" -> <<1, 1>>
    [] unit = "pt" -> <<1, 72>>
    [] unit = "px" -> <<1, 96>>
    [] unit = "cm" -> <<393701, 1000000>>
    [] unit = "mm" -> <<393701, 10000000>>
    [] unit = "%" -> <<1, 1>>

\* Integers here are 32 bits wide, so inches * 12.3 * scale is computed
\* without forming the product of its numerators: MulDiv(x, c, d) is
\* <<q, r>> with x * c = q * d + r and 0 <= r < d, by doubling over the
\* binary digits of c.
MulDivStep(h, a, d) ==
  <<2 * h[1] + (2 * h[2]) \div d + (((2 * h[2]) % d) + (a % d)) \div d
      + a \div d,
    (((2 * h[2]) % d) + (a % d)) % d>>

RECURSIVE MulDiv(_, _, _)
MulDiv(x, c, d) ==
  IF c = 0 THEN <<0, 0>>
  ELSE MulDivStep(MulDiv(x, c \div 2, d), IF c % 2 = 1 THEN x ELSE 0, d)

\* round(q / e) for the quotient and remainder h = <<q, r>> of a division
\* by d, that is round of the exact value (q + r / d) / e, e even.
RoundQuotient(h, e) ==
  LET q == h[1] \div e
      r == h[1] % e
  IN IF 2 * r > e \/ (2 * r = e /\ h[2] > 0) THEN q + 1
     ELSE IF 2 * r = e /\ q % 2 = 1 THEN q + 1
     ELSE q

\* round(inches * CHARS_PER_INCH * scale) =
\* round(value * factor * 12.3 * console_width / 80)
scaled_chars(self, console_width) ==
  RoundQuotient(MulDiv(self.value * console_width * 123,
                       conversions(self.unit)[1], conversions(self.unit)[2]),
                800)

\* Width.to_chars with a width that does not fit dropped to 0 instead of
\* being cut to the console width.
to_chars_drop_overflow(self, console_width) ==
  IF self.unit = "%"
  THEN RoundHalfEven(console_width * self.value, 100)
  ELSE IF scaled_chars(self, console_width) > console_width THEN 0
  ELSE scaled_chars(self, console_width)

\* Width.to_chars(console_width): scale = console_width / 80, chars =
\* round(inches * 12.3 * scale); a percentage returns
\* round(console_width * (value / 100)) as it is, every other unit returns
\* min(chars, console_width).
to_chars(self, console_width) ==
  IF self.unit = "%"
  THEN RoundHalfEven(console_width * self.value, 100)
  ELSE Min(scaled_chars(self, console_width), console_width)

Fields ==
  {"display", "margin_top", "margin_bottom", "font_size", "font_weight",
   "text_align", "line_height", "width", "text_decoration"}

NumFields == {"margin_top", "margin_bottom", "font_size", "line_height"}
StrFields == {"display", "font_weight", "text_align", "text_decoration"}

\* StyleInfo(): every field defaults to None.
StyleInfo == [f \in Fields |-> None]

\* Python truthiness of the Optional value o of field f: None, 0.0 and ''
\* are falsy; a Width object (a plain dataclass) is always truthy.
Truthy(f, o) ==
  /\ o # None
  /\ f \in NumFields => o[1] # 0
  /\ f \in StrFields => o[1] # ""

\* StyleInfo.merge with `if self.x is not None` read as Python truthiness
\* (`if self.x`): a child's 0 or '' no longer overrides the parent.
merge_truthy(self, parent_style) ==
  IF parent_style = None
  THEN self
  ELSE [f \in Fields |->
          IF Truthy(f, self[f]) THEN self[f] ELSE parent_style[1][f]]

\* StyleInfo.merge that answers a missing parent with a fresh StyleInfo()
\* in place of `self`.
merge_fresh_without_parent(self, parent_style) ==
  IF parent_style = None
  THEN StyleInfo
  ELSE [f \in Fields |->
          IF self[f] # None THEN self[f] ELSE parent_style[1][f]]

\* StyleInfo.merge(self, parent_style): parent_style is Optional[StyleInfo];
\* a StyleInfo is a plain dataclass, hence always truthy, so `not
\* parent_style` holds for None only.
merge(self, parent_style) ==
  IF parent_style = None
  THEN self
  ELSE [f \in Fields |->
          IF self[f] # None THEN self[f] ELSE parent_style[1][f]]


(***************************************************************************)
(* Text                                                                    *)
(***************************************************************************)
\* str.isspace for one character.
IsSpace(c) == c \in {" ", "\n", "\t"}

RECURSIVE LStrip(_)
LStrip(t) ==
  IF t # <<>> /\ IsSpace(Head(t)) THEN LStrip(Tail(t)) ELSE t

RECURSIVE RStrip(_)
RStrip(t) ==
  IF t # <<>> /\ IsSpace(t[Len(t)])
  THEN RStrip(SubSeq(t, 1, Len(t) - 1))
  ELSE t

\* str.strip()
Strip(t) == RStrip(LStrip(t))

\* str.startswith for a one-character prefix.
StartsWith(t, c) == t # <<>> /\ Head(t) = c

\* int(s): surrounding whitespace, an optional sign, then decimal digits;
\* None stands for the ValueError raised on anything else.
DigitValue(c) ==
  CASE c = "0" -> 0 [] c = "1" -> 1 [] c = "2" -> 2 [] c = "3" -> 3
    [] c = "4" -> 4 [] c = "5" -> 5 [] c = "6" -> 6 [] c = "7" -> 7
    [] c = "8" -> 8 [] c = "9" -> 9

IsDigit(c) == c \in {"0", "1", "2", "3", "4", "5", "6", "7", "8", "9"}

RECURSIVE DigitsValue(_)
DigitsValue(t) ==
  IF t = <<>> THEN 0
  ELSE 10 * DigitsValue(SubSeq(t, 1, Len(t) - 1)) + DigitValue(t[Len(t)])

ParseInt(s) ==
  LET t == Strip(s)
      signed == t # <<>> /\ Head(t) \in {"-", "+"}
      digits == IF signed THEN Tail(t) ELSE t
  IN IF digits = <<>> \/ \E k \in 1..Len(digits) : ~IsDigit(digits[k])
     THEN None
     ELSE Some(IF signed /\ Head(t) = "-"
               THEN 0 - DigitsValue(digits)
               ELSE DigitsValue(digits))

(***************************************************************************)
(* parse_style                                                             *)
(*                                                                         *)
(* A style attribute is the sequence of its `;`-separated properties,      *)
(* each a record [key, value] of two strings (the split on the first ':'); *)
(* a property without ':' has key "" and is skipped.  Numeric style values *)
(* are kept in hundredths, so that a percentage (value / 100.0) is an      *)
(* integer.                                                                *)
(***************************************************************************)
Prop(key, value) == [key |-> key, value |-> value]

\* str.lower() on the keys and values drawn.
Lower(w) ==
  CASE w = "TEXT-ALIGN" -> "text-align"
    [] w = "RIGHT" -> "right"
    [] OTHER -> w

\* The regex match `(-?\d*\.?\d+)([a-z]*)` and float() on the values
\* drawn: the number and the unit text, or None when nothing matches; a
\* trailing '%' is split off first.
Dimension(value) ==
  CASE value = "14pt" -> Some([number |-> 14, unit |-> "pt"])
    [] value = "20pt" -> Some([number |-> 20, unit |-> "pt"])
    [] value = "0pt" -> Some([number |-> 0, unit |-> "pt"])
    [] value = "200px" -> Some([number |-> 200, unit |-> "px"])
    [] value = "100" -> Some([number |-> 100, unit |-> ""])
    [] value = "2in" -> Some([number |-> 2, unit |-> "in"])
    [] value = "3em" -> Some([number |-> 3, unit |-> "em"])
    [] value = "5vw" -> Some([number |-> 5, unit |-> "vw"])
    [] value = "-4px" -> Some([number |-> 0 - 4, unit |-> "px"])
    [] value = "50%" -> Some([number |-> 50, unit |-> "%"])
    [] OTHER -> None

EndsWithPercent(value) == value \in {"50%", "x%", "%"}

\* _parse_width
parse_width(value) ==
  IF value = "" THEN None
  ELSE IF EndsWithPercent(value)
  THEN IF Dimension(value) = None THEN None
       ELSE Some(Width(Dimension(value)[1].number, "%"))
  ELSE IF Dimension(value) = None THEN None
  ELSE LET d == Dimension(value)[1]
       IN IF d.unit \in {"in", "pt", "px", "cm", "mm"}
          THEN Some(Width(d.number, d.unit))
          ELSE IF d.unit = "" THEN Some(Width(d.number, "px"))
          ELSE None

\* int(x / y) for y > 0: truncation toward zero.
TruncDiv(x, y) == IF x >= 0 THEN x \div y ELSE 0 - ((0 - x) \div y)

\* _parse_unit, in hundredths: a percentage is value / 100.0, anything
\* else int(number * chars_per_unit), the multiplier being num/den.
parse_unit(value) ==
  IF value = "" THEN None
  ELSE IF EndsWithPercent(value)
  THEN IF Dimension(value) = None THEN None
       ELSE Some(Dimension(value)[1].number)
  ELSE IF Dimension(value) = None THEN None
  ELSE LET d == Dimension(value)[1]
           mult ==
             CASE d.unit = "in" -> <<123, 10>>
               [] d.unit = "pt" -> <<123, 720>>
               [] d.unit = "px" -> <<123, 960>>
               [] d.unit = "cm" -> <<484, 100>>
               [] d.unit = "mm" -> <<484, 1000>>
               [] d.unit \in {"em", "rem"} -> <<16, 10>>
               [] OTHER -> <<1, 1>>
       IN Some(100 * TruncDiv(d.number * mult[1], mult[2]))

\* One property applied to the StyleInfo built so far.
apply_property(style, prop) ==
  LET key == Lower(prop.key)
      value == Lower(prop.value)
  IN CASE key = "width" ->
            IF parse_width(value) # None
            THEN [style EXCEPT !.width = parse_width(value)]
            ELSE style
       [] key = "display" -> [style EXCEPT !.display = Some(value)]
       [] key = "margin-top" -> [style EXCEPT !.margin_top = parse_unit(value)]
       [] key = "margin-bottom" ->
            [style EXCEPT !.margin_bottom = parse_unit(value)]
       [] key = "font-size" -> [style EXCEPT !.font_size = parse_unit(value)]
       [] key = "font-weight" -> [style EXCEPT !.font_weight = Some(value)]
       [] key = "text-align" -> [style EXCEPT !.text_align = Some(value)]
       [] key = "line-height" -> [style EXCEPT !.line_height = parse_unit(value)]
       [] key = "text-decoration" ->
            [style EXCEPT !.text_decoration = Some(value)]
       [] OTHER -> style

RECURSIVE parse_properties(_, _)
parse_properties(style, props) ==
  IF props = <<>> THEN style
  ELSE parse_properties(apply_property(style, Head(props)), Tail(props))

\* parse_style(style_str); element.get('style', '') of an element without
\* the attribute is the empty sequence.
parse_style(style_str) == parse_properties(StyleInfo, style_str)

(***************************************************************************)
(* Nodes                                                                   *)
(***************************************************************************)
\* create_node: the node classes are dataclasses; metadata is a dict,
\* modelled as the set of its <<key, value>> items (`metadata or {}`).
HeadingNode(content, style, level, metadata) ==
  [type |-> "heading", content |-> content, style |-> style, level |-> level,
   metadata |-> metadata]

TextBlockNode(content, style, metadata) ==
  [type |-> "text_block", content |-> content, style |-> style,
   metadata |-> metadata]

TableNode(content, style, metadata) ==
  [type |-> "table", content |-> content, style |-> style,
   metadata |-> metadata]

\* What a function returned, or the exception it raised.
Returned(v) == [kind |-> "return", value |-> v]
Raised(e) == [kind |-> "raise", value |-> e]

\* create_node(type_, content, style, level, metadata): `metadata or {}`,
\* then the constructor of the class named by type_, whatever the content
\* is; ValueError for any other type_.
create_node(type_, content, style, level, metadata) ==
  LET md == IF metadata = None THEN {} ELSE metadata[1]
  IN CASE type_ = "heading" -> Returned(HeadingNode(content, style, level, md))
       [] type_ = "text_block" -> Returned(TextBlockNode(content, style, md))
       [] type_ = "table" -> Returned(TableNode(content, style, md))
       [] OTHER -> Raised("ValueError")

\* A Python object together with its class, for the functions that test
\* isinstance.
PyValue(class, value) == [class |-> class, value |-> value]

\* is_table_content: a list all of whose elements are TableRow objects.
is_table_content(content) == content.class = "List[TableRow]"

\* is_text_content: isinstance(content, str)
is_text_content(content) == content.class = "str"

\* DocumentNode(type, content, style, level): the generated __init__ stores
\* its arguments; the class defines no __post_init__.
DocumentNode(type, content, style, level) ==
  [type |-> type, content |-> content, style |-> style, level |-> level]

\* DocumentNode._validate_content(), which no constructor calls.
validate_content(self) ==
  IF self.type = "table" /\ ~is_table_content(self.content)
  THEN Raised("ValueError")
  ELSE IF self.type \in {"heading", "text_block"}
            /\ ~is_text_content(self.content)
  THEN Raised("ValueError")
  ELSE Returned(None)

(***************************************************************************)
(* The element tree                                                        *)
(*                                                                         *)
(* A NavigableString is [name |-> "#text", text]; a Tag has a name, its    *)
(* style attribute (see parse_style), its colspan attribute (Optional str) *)
(* and the sequence of its children.                                       *)
(***************************************************************************)
Text(t) == [name |-> "#text", text |-> t]

Cell(name, style, colspan, children) ==
  [name |-> name, style |-> style, colspan |-> colspan, children |-> children]

Tag(name, style, children) == Cell(name, style, None, children)

IsTag(el) == el.name # "#text"

\* Tag.get_text(): every descendant string, in document order.
RECURSIVE get_text(_)
get_text(el) ==
  IF ~IsTag(el) THEN el.text
  ELSE IF el.children = <<>> THEN <<>>
  ELSE get_text(Head(el.children))
         \o get_text([el EXCEPT !.children = Tail(el.children)])

\* Tag.get_text(strip=True): every descendant string stripped, the empty
\* ones left out.
RECURSIVE get_text_strip(_)
get_text_strip(el) ==
  IF ~IsTag(el) THEN Strip(el.text)
  ELSE IF el.children = <<>> THEN <<>>
  ELSE get_text_strip(Head(el.children))
         \o get_text_strip([el EXCEPT !.children = Tail(el.children)])

\* Tag.find_all(names): the descendants so named in document order, each
\* with the names of its ancestors (outermost first); anc names the
\* ancestors of the children given.
RECURSIVE find_all(_, _, _)
find_all(children, names, anc) ==
  IF children = <<>> THEN <<>>
  ELSE LET c == Head(children)
       IN (IF c.name \in names THEN <<[el |-> c, anc |-> anc]>> ELSE <<>>)
            \o (IF IsTag(c)
                THEN find_all(c.children, names, Append(anc, c.name))
                ELSE <<>>)
            \o find_all(Tail(children), names, anc)

(***************************************************************************)
(* _process_table                                                          *)
(***************************************************************************)
\* The metadata of a table node: id, class and data_attrs, of a table
\* element that has none of these attributes.
TableMetadata == {<<"id", "">>, <<"class", <<>>>>, <<"data_attrs", {}>>}

TableCell(content, colspan, align, is_currency) ==
  [content |-> content, colspan |-> colspan, rowspan |-> 1, align |-> align,
   is_currency |-> is_currency]

TableRow(cs, is_header) == [cells |-> cs, is_header |-> is_header]

\* replace_html_entities: an entity is one symbol of the text.
EntityText(c) ==
  CASE c \in {"&horbar;", "&mdash;", "&#x2014;", "&#8212;", "&#8213;"} ->
         <<"-", "-", "-", "-", "-">>
    [] c \in {"&ndash;", "&#x2013;", "&#8211;"} -> <<"-", "-", "-">>
    [] c \in {"&minus;", "&hyphen;", "&dash;", "&#x2212;", "&#8208;",
              "&#8209;", "&#8210;", "&#8722;"} -> <<"-">>
    [] c \in {"&nbsp;", "&#8202;"} -> <<" ">>
    [] c = "&amp;" -> <<"&">>
    [] c = "&lt;" -> <<"<">>
    [] c = "&gt;" -> <<">">>
    [] c = "&quot;" -> <<"\"">>
    [] c = "&apos;" -> <<"'">>
    [] c = "&#8203;" -> <<>>
    [] OTHER -> <<c>>

RECURSIVE replace_html_entities(_)
replace_html_entities(t) ==
  IF t = <<>> THEN <<>>
  ELSE EntityText(Head(t)) \o replace_html_entities(Tail(t))

\* cell.get_text(strip=False) after every <br> of the cell was replaced
\* by the string "\n".
RECURSIVE text_with_breaks(_)
text_with_breaks(el) ==
  IF ~IsTag(el) THEN el.text
  ELSE IF el.name = "br" THEN <<"\n">>
  ELSE IF el.children = <<>> THEN <<>>
  ELSE text_with_breaks(Head(el.children))
         \o text_with_breaks([el EXCEPT !.children = Tail(el.children)])

RECURSIVE div_texts(_)
div_texts(divs) ==
  IF divs = <<>> THEN <<>>
  ELSE replace_html_entities(get_text_strip(Head(divs)))
         \o (IF Len(divs) > 1 THEN <<"\n">> ELSE <<>>)
         \o div_texts(Tail(divs))

\* extract_cell_text(cell)
extract_cell_text(cell) ==
  LET divs == SelectSeq(cell.children, LAMBDA c : c.name = "div")
  IN IF divs # <<>>
     THEN div_texts(divs)
     ELSE Strip(replace_html_entities(text_with_breaks(cell)))

\* table_cells with one empty cell too many in the split
\* (`range(colspan)` for `range(colspan - 1)`).
table_cells_extra_empty(colspan, style, text) ==
  IF colspan = None THEN Raised("ValueError")
  ELSE IF style.text_align = Some("right") /\ colspan[1] > 1
  THEN Returned([k \in 1..(colspan[1] + 1) |->
                   IF k < colspan[1] + 1
                   THEN TableCell(<<>>, 1, "right", FALSE)
                   ELSE TableCell(text, 1, "right", FALSE)])
  ELSE Returned(<<TableCell(text, colspan[1],
                            IF Truthy("text_align", style.text_align)
                            THEN style.text_align[1] ELSE "left",
                            StartsWith(text, "$"))>>)

\* The body of process_cell once `colspan` (None for the ValueError of
\* int()), `style` and `text` are known: the list of TableCell.
table_cells(colspan, style, text) ==
  IF colspan = None THEN Raised("ValueError")
  ELSE IF style.text_align = Some("right") /\ colspan[1] > 1
  THEN Returned([k \in 1..colspan[1] |->
                   IF k < colspan[1]
                   THEN TableCell(<<>>, 1, "right", FALSE)
                   ELSE TableCell(text, 1, "right", FALSE)])
  ELSE Returned(<<TableCell(text, colspan[1],
                            IF Truthy("text_align", style.text_align)
                            THEN style.text_align[1] ELSE "left",
                            StartsWith(text, "$"))>>)

\* process_cell(cell): the list of TableCell, or the ValueError of int().
process_cell(cell) ==
  table_cells(ParseInt(IF cell.colspan = None THEN <<"1">>
                       ELSE cell.colspan[1]),
              parse_style(cell.style),
              extract_cell_text(cell))

\* is_header read off the row's parent only.
is_header_parent_only(anc) == anc # <<>> /\ anc[Len(anc)] = "thead"

\* row.find_parent('thead') is not None; anc are the names of the row's
\* ancestors, up to the root of the document.
is_header(anc) == \E k \in 1..Len(anc) : anc[k] = "thead"

\* The cell elements of a row: row.find_all(['td', 'th']).
row_cells(tr) == find_all(tr.el.children, {"td", "th"}, Append(tr.anc, "tr"))

\* The row elements of a table: element.find_all('tr').
table_rows(element, anc) ==
  find_all(element.children, {"tr"}, Append(anc, element.name))

\* Every row is kept, also one without cells.
keep_row_always(r) == TRUE

\* `if row.cells`
keep_row(r) == r.cells # <<>>

\* The end of _process_table: a node `if rows`, else None.
table_result(element, rs) ==
  IF rs # <<>>
  THEN Some(TableNode(rs, parse_style(element.style), TableMetadata))
  ELSE None

(***************************************************************************)
(* _merge_adjacent_nodes                                                   *)
(***************************************************************************)
\* _to_pixels, in units of 1/100000 pixel so that the factors are integers.
PixelFactor(unit) ==
  CASE unit = "px" -> 100000
    [] unit = "pt" -> 133300
    [] unit = "in" -> 9600000
    [] unit = "cm" -> 3779500
    [] unit = "mm" -> 377950
    [] unit = "%" -> 100000
    [] OTHER -> 100000

to_pixels(width) == width.value * PixelFactor(width.unit)

\* The width of the merged style: `a < b * 0.3` is 10 * a < 3 * b.
merged_width(style1, style2) ==
  IF style1.width # None /\ style2.width # None
  THEN LET w1 == style1.width[1]
           w2 == style2.width[1]
       IN IF w1.unit # w2.unit
          THEN IF 10 * to_pixels(w1) < 3 * to_pixels(w2) THEN style2.width
               ELSE IF 10 * to_pixels(w2) < 3 * to_pixels(w1) THEN style1.width
               ELSE style2.width
          ELSE IF 10 * w1.value < 3 * w2.value THEN style2.width
               ELSE IF 10 * w2.value < 3 * w1.value THEN style1.width
               ELSE style2.width
  ELSE IF style2.width # None THEN style2.width ELSE style1.width

\* Python's `a or b` on the Optional values of field f.
Or(f, a, b) == IF Truthy(f, a) THEN a ELSE b

\* merged_fields without `merged.text_align = style1.text_align`: the new
\* StyleInfo keeps the default None.
merged_fields_align_unset(style1, style2) ==
  [display |-> Or("display", style2.display, style1.display),
   margin_top |-> style1.margin_top,
   margin_bottom |-> style2.margin_bottom,
   font_size |->
     IF Truthy("font_size", style2.font_size)
        /\ style2.font_size # style1.font_size
     THEN style2.font_size ELSE style1.font_size,
   font_weight |->
     IF Truthy("font_weight", style2.font_weight)
        /\ style2.font_weight # style1.font_weight
     THEN style2.font_weight ELSE style1.font_weight,
   text_align |-> None,
   line_height |-> Or("line_height", style2.line_height, style1.line_height),
   width |-> merged_width(style1, style2),
   text_decoration |->
     Or("text_decoration", style2.text_decoration, style1.text_decoration)]

\* merged_fields with each margin taken from whichever style has one, the
\* second style first.
merged_fields_any_margin(style1, style2) ==
  [display |-> Or("display", style2.display, style1.display),
   margin_top |-> Or("margin_top", style2.margin_top, style1.margin_top),
   margin_bottom |->
     Or("margin_bottom", style2.margin_bottom, style1.margin_bottom),
   font_size |->
     IF Truthy("font_size", style2.font_size)
        /\ style2.font_size # style1.font_size
     THEN style2.font_size ELSE style1.font_size,
   font_weight |->
     IF Truthy("font_weight", style2.font_weight)
        /\ style2.font_weight # style1.font_weight
     THEN style2.font_weight ELSE style1.font_weight,
   text_align |-> style1.text_align,
   line_height |-> Or("line_height", style2.line_height, style1.line_height),
   width |-> merged_width(style1, style2),
   text_decoration |->
     Or("text_decoration", style2.text_decoration, style1.text_decoration)]

\* The StyleInfo that merge_styles builds when it does not return None.
merged_fields(style1, style2) ==
  [display |-> Or("display", style2.display, style1.display),
   margin_top |-> style1.margin_top,
   margin_bottom |-> style2.margin_bottom,
   font_size |->
     IF Truthy("font_size", style2.font_size)
        /\ style2.font_size # style1.font_size
     THEN style2.font_size ELSE style1.font_size,
   font_weight |->
     IF Truthy("font_weight", style2.font_weight)
        /\ style2.font_weight # style1.font_weight
     THEN style2.font_weight ELSE style1.font_weight,
   text_align |-> style1.text_align,
   line_height |-> Or("line_height", style2.line_height, style1.line_height),
   width |-> merged_width(style1, style2),
   text_decoration |->
     Or("text_decoration", style2.text_decoration, style1.text_decoration)]

\* merge_styles without the text-align veto: styles always merge.
merge_styles_no_veto(style1, style2) == Some(merged_fields(style1, style2))

\* merge_styles(style1, style2): None when the text-align values differ.
merge_styles(style1, style2) ==
  IF style1.text_align # style2.text_align
  THEN None
  ELSE Some(merged_fields(style1, style2))

\* can_merge_nodes(node1, node2); an empty dict is falsy.
can_merge_nodes(node1, node2) ==
  IF node1.type # "text_block" \/ node2.type # "text_block" THEN FALSE
  ELSE IF node1.metadata # {} \/ node2.metadata # {} THEN FALSE
  ELSE merge_styles(node1.style, node2.style) # None

\* The merged node with the two contents joined by one line break only.
merged_node_one_break(node1, node2) ==
  TextBlockNode(node1.content \o <<"\n">> \o node2.content,
                merge_styles(node1.style, node2.style)[1], {})

\* The merged node with the two contents the other way round.
merged_node_reversed(node1, node2) ==
  TextBlockNode(node2.content \o <<"\n", "\n">> \o node1.content,
                merge_styles(node1.style, node2.style)[1], {})

\* The node that replaces `current` when `node` is absorbed:
\* create_node('text_block', f"{current.content}\n\n{node.content}", merged_style)
merged_node(node1, node2) ==
  TextBlockNode(node1.content \o <<"\n", "\n">> \o node2.content,
                merge_styles(node1.style, node2.style)[1], {})

MergeIdle ==
  /\ nodes = <<>>
  /\ node_i = 0
  /\ current = None
  /\ merged = <<>>
  /\ merge_pc = "idle"

\* `if not nodes: return []`
MergeEmpty ==
  /\ merge_pc = "start"
  /\ nodes = <<>>
  /\ merge_pc' = "done"
  /\ UNCHANGED <<nodes, node_i, current, merged>>

\* `merged = []; current = None` and the loop is entered.
MergeBegin ==
  /\ merge_pc = "start"
  /\ nodes # <<>>
  /\ merged' = <<>>
  /\ current' = None
  /\ node_i' = 1
  /\ merge_pc' = "loop"
  /\ UNCHANGED nodes

\* One iteration, `if not current`: a node object is always truthy.
MergeFirst ==
  /\ merge_pc = "loop"
  /\ node_i <= Len(nodes)
  /\ current = None
  /\ current' = Some(nodes[node_i])
  /\ node_i' = node_i + 1
  /\ UNCHANGED <<nodes, merged, merge_pc>>

\* One iteration, `if can_merge_nodes(current, node)`.
MergeAbsorb ==
  /\ merge_pc = "loop"
  /\ node_i <= Len(nodes)
  /\ current # None
  /\ can_merge_nodes(current[1], nodes[node_i])
  /\ current' = Some(merged_node(current[1], nodes[node_i]))
  /\ node_i' = node_i + 1
  /\ UNCHANGED <<nodes, merged, merge_pc>>

\* One iteration, the else branch: `merged.append(current); current = node`.
MergeEmit ==
  /\ merge_pc = "loop"
  /\ node_i <= Len(nodes)
  /\ current # None
  /\ ~can_merge_nodes(current[1], nodes[node_i])
  /\ merged' = Append(merged, current[1])
  /\ current' = Some(nodes[node_i])
  /\ node_i' = node_i + 1
  /\ UNCHANGED <<nodes, merge_pc>>

\* After the loop: `if current: merged.append(current)`, `return merged`.
MergeReturn ==
  /\ merge_pc = "loop"
  /\ node_i > Len(nodes)
  /\ merged' = IF current # None THEN Append(merged, current[1]) ELSE merged
  /\ merge_pc' = "done"
  /\ UNCHANGED <<nodes, node_i, current>>

\* The whole pass as a function of the raw node list.
RECURSIVE merge_loop(_, _, _, _)
merge_loop(ns, i, cur, out) ==
  IF i > Len(ns)
  THEN IF cur # None THEN Append(out, cur[1]) ELSE out
  ELSE IF cur = None THEN merge_loop(ns, i + 1, Some(ns[i]), out)
  ELSE IF can_merge_nodes(cur[1], ns[i])
  THEN merge_loop(ns, i + 1, Some(merged_node(cur[1], ns[i])), out)
  ELSE merge_loop(ns, i + 1, Some(ns[i]), Append(out, cur[1]))

merge_adjacent_nodes(ns) ==
  IF ns = <<>> THEN <<>> ELSE merge_loop(ns, 1, None, <<>>)

(***************************************************************************)
(* _process_table, one step per cell and per row                           *)
(***************************************************************************)
StyleIdle == child = None /\ parent = None /\ merged_style = None

CallIdle == call = None /\ call_ret = None

TableIdle ==
  /\ table_el = None
  /\ table_anc = <<>>
  /\ tr_i = 0
  /\ td_i = 0
  /\ td = None
  /\ cell_out = None
  /\ cells = <<>>
  /\ row = None
  /\ rows = <<>>
  /\ table_ret = None
  /\ table_pc = "idle"

\* The rows of the table being processed, and the cells of its current row.
CurrentRows == table_rows(table_el[1], table_anc)
CurrentCells == row_cells(CurrentRows[tr_i])

\* `cells.extend(process_cell(td))` for the next td or th of the row.
TableCellStep ==
  /\ table_pc = "rows"
  /\ tr_i <= Len(CurrentRows)
  /\ td_i <= Len(CurrentCells)
  /\ process_cell(CurrentCells[td_i].el).kind = "return"
  /\ td' = Some(CurrentCells[td_i].el)
  /\ cell_out' = Some(process_cell(CurrentCells[td_i].el).value)
  /\ cells' = cells \o process_cell(CurrentCells[td_i].el).value
  /\ td_i' = td_i + 1
  /\ UNCHANGED <<table_el, table_anc, tr_i, row, rows, table_ret, table_pc>>

\* int(cell.get('colspan', '1')) raises: nothing in _process_table catches
\* it, so the call ends with the ValueError.
TableCellRaises ==
  /\ table_pc = "rows"
  /\ tr_i <= Len(CurrentRows)
  /\ td_i <= Len(CurrentCells)
  /\ process_cell(CurrentCells[td_i].el).kind = "raise"
  /\ td' = Some(CurrentCells[td_i].el)
  /\ table_ret' = Some(process_cell(CurrentCells[td_i].el))
  /\ table_pc' = "raised"
  /\ UNCHANGED <<table_el, table_anc, tr_i, td_i, cell_out, cells, row, rows>>

\* process_row returns the TableRow; `if row.cells: rows.append(row)`.
TableRowStep ==
  /\ table_pc = "rows"
  /\ tr_i <= Len(CurrentRows)
  /\ td_i > Len(CurrentCells)
  /\ LET r == TableRow(cells, is_header(CurrentRows[tr_i].anc))
     IN /\ row' = Some(r)
        /\ rows' = IF keep_row(r) THEN Append(rows, r) ELSE rows
  /\ tr_i' = tr_i + 1
  /\ td_i' = 1
  /\ cells' = <<>>
  /\ UNCHANGED <<table_el, table_anc, td, cell_out, table_ret, table_pc>>

\* After the last row: create_node('table', rows, ...) `if rows`, else None.
TableReturn ==
  /\ table_pc = "rows"
  /\ tr_i > Len(CurrentRows)
  /\ table_ret' = Some(Returned(table_result(table_el[1], rows)))
  /\ table_pc' = "done"
  /\ UNCHANGED <<table_el, table_anc, tr_i, td_i, td, cell_out, cells, row, rows>>

\* The whole of process_row and of _process_table as functions.
\* The loop of process_row over the cells found; cells_after goes on
\* with what process_cell gave for the first of them, r, and an exception
\* ends the loop.
RECURSIVE process_cells(_, _)
RECURSIVE cells_after(_, _, _)
cells_after(r, rest, acc) ==
  IF r.kind = "raise" THEN r ELSE process_cells(rest, acc \o r.value)

process_cells(found, acc) ==
  IF found = <<>> THEN Returned(acc)
  ELSE cells_after(process_cell(Head(found).el), Tail(found), acc)

\* The TableRow made of the cells cs, or the exception cs.
row_of(cs, anc) ==
  IF cs.kind = "raise" THEN cs
  ELSE Returned(TableRow(cs.value, is_header(anc)))

process_row(tr) == row_of(process_cells(row_cells(tr), <<>>), tr.anc)

\* The loop of _process_table over the rows found; rows_after goes on
\* with what process_row gave for the first of them, r.
RECURSIVE process_rows(_, _)
RECURSIVE rows_after(_, _, _)
rows_after(r, rest, acc) ==
  IF r.kind = "raise" THEN r
  ELSE process_rows(rest, IF keep_row(r.value) THEN Append(acc, r.value)
                          ELSE acc)

process_rows(found, acc) ==
  IF found = <<>> THEN Returned(acc)
  ELSE rows_after(process_row(Head(found)), Tail(found), acc)

\* The node made of the rows rs, or the exception rs.
table_of(element, rs) ==
  IF rs.kind = "raise" THEN rs
  ELSE Returned(table_result(element, rs.value))

process_table(element, anc) ==
  table_of(element, process_rows(table_rows(element, anc), <<>>))

(***************************************************************************)
(* Text extraction and paragraph assembly                                  *)
(***************************************************************************)
\* sep.join(parts)
RECURSIVE Join(_, _)
Join(parts, sep) ==
  IF parts = <<>> THEN <<>>
  ELSE IF Len(parts) = 1 THEN parts[1]
  ELSE parts[1] \o sep \o Join(Tail(parts), sep)

\* str.split(c): the pieces between the occurrences of the character c.
RECURSIVE SplitOn(_, _)
SplitOn(t, c) ==
  IF \A k \in 1..Len(t) : t[k] # c THEN <<t>>
  ELSE LET k == CHOOSE k \in 1..Len(t) :
                  t[k] = c /\ \A j \in 1..(k - 1) : t[j] # c
       IN <<SubSeq(t, 1, k - 1)>> \o SplitOn(SubSeq(t, k + 1, Len(t)), c)

\* str.split(): the words between runs of whitespace.
RECURSIVE Words(_)
Words(t) ==
  LET u == LStrip(t)
  IN IF u = <<>> THEN <<>>
     ELSE IF \A k \in 1..Len(u) : ~IsSpace(u[k]) THEN <<u>>
     ELSE LET k == CHOOSE k \in 1..Len(u) :
                     IsSpace(u[k]) /\ \A j \in 1..(k - 1) : ~IsSpace(u[j])
          IN <<SubSeq(u, 1, k - 1)>> \o Words(SubSeq(u, k, Len(u)))

\* str.isspace()
isspace(t) == t # <<>> /\ \A k \in 1..Len(t) : IsSpace(t[k])

\* str.endswith for a one-character suffix.
EndsWith(t, c) == t # <<>> /\ t[Len(t)] = c

\* `text in element.get('style', '')` for the text of one declaration,
\* `key:value` written without blanks.
StyleContains(style_str, key, value) ==
  \E k \in 1..Len(style_str) :
    style_str[k].key = key /\ style_str[k].value = value

\* _get_text_with_spacing(element); spacing_loop is its loop over the
\* children, with the locals `texts` and `last_was_text`.
RECURSIVE get_text_with_spacing(_)
RECURSIVE spacing_loop(_, _, _)
spacing_loop(children, texts, last_was_text) ==
  IF children = <<>> THEN Join(texts, <<>>)
  ELSE LET c == Head(children)
           rest == Tail(children)
       IN IF ~IsTag(c)
          THEN IF Strip(c.text) # <<>>
               THEN spacing_loop(rest, Append(texts, Strip(c.text)), TRUE)
               ELSE IF isspace(c.text) /\ last_was_text
               THEN spacing_loop(rest, Append(texts, <<" ">>), last_was_text)
               ELSE spacing_loop(rest, texts, last_was_text)
          ELSE IF c.name = "br"
          THEN spacing_loop(rest, Append(texts, <<"\n">>), FALSE)
          ELSE IF c.name = "table"
          THEN spacing_loop(rest, texts, last_was_text)
          ELSE LET child_text == get_text_with_spacing(c)
               IN IF Strip(child_text) # <<>>
                  THEN spacing_loop(
                         rest,
                         Append(IF /\ texts # <<>>
                                   /\ last_was_text
                                   /\ ~EndsWith(texts[Len(texts)], " ")
                                   /\ ~StartsWith(child_text, " ")
                                THEN Append(texts, <<" ">>)
                                ELSE texts,
                                Strip(child_text)),
                         TRUE)
                  ELSE spacing_loop(rest, texts, last_was_text)

get_text_with_spacing(element) ==
  IF element.name = "table" THEN <<>>
  ELSE spacing_loop(element.children, <<>>, FALSE)

\* The loop of _process_paragraph over the children: the text_parts.
RECURSIVE paragraph_loop(_, _, _)
paragraph_loop(children, text_parts, last_was_text) ==
  IF children = <<>> THEN text_parts
  ELSE LET c == Head(children)
           rest == Tail(children)
       IN IF ~IsTag(c)
          THEN IF Strip(c.text) # <<>>
               THEN paragraph_loop(rest, Append(text_parts, c.text), TRUE)
               ELSE IF isspace(c.text) /\ last_was_text
               THEN paragraph_loop(rest, Append(text_parts, <<" ">>),
                                   last_was_text)
               ELSE paragraph_loop(rest, text_parts, last_was_text)
          ELSE IF c.name = "br"
          THEN paragraph_loop(rest, Append(text_parts, <<"\n">>), FALSE)
          ELSE IF c.name \in {"span", "font", "strong", "em", "b", "i", "a"}
          THEN LET text == get_text_with_spacing(c)
               IN IF Strip(text) # <<>>
                  THEN paragraph_loop(rest, Append(text_parts, Strip(text)),
                                      TRUE)
                  ELSE paragraph_loop(rest, text_parts, last_was_text)
          ELSE paragraph_loop(rest, text_parts, last_was_text)

\* _process_paragraph with every part stripped before the parts are joined.
process_paragraph_stripped(element, style) ==
  LET parts == paragraph_loop(element.children, <<>>, FALSE)
      text_parts == [k \in 1..Len(parts) |-> Strip(parts[k])]
      split == SplitOn(Join(text_parts, <<>>), "\n")
      lines == [k \in 1..Len(split) |-> Join(Words(split[k]), <<" ">>)]
      text == Join(SelectSeq(lines, LAMBDA line : line # <<>>), <<"\n">>)
  IN IF text_parts = <<>> THEN None
     ELSE IF Strip(text) # <<>> THEN Some(TextBlockNode(text, style, {}))
     ELSE None

\* _process_paragraph(element, style): a TextBlock or None.
process_paragraph(element, style) ==
  LET text_parts == paragraph_loop(element.children, <<>>, FALSE)
      split == SplitOn(Join(text_parts, <<>>), "\n")
      lines == [k \in 1..Len(split) |-> Join(Words(split[k]), <<" ">>)]
      text == Join(SelectSeq(lines, LAMBDA line : line # <<>>), <<"\n">>)
  IN IF text_parts = <<>> THEN None
     ELSE IF Strip(text) # <<>> THEN Some(TextBlockNode(text, style, {}))
     ELSE None

\* _is_block_element(element)
is_block_element(element) ==
  LET style == parse_style(element.style)
  IN IF Truthy("display", style.display)
     THEN style.display[1] # "inline"
     ELSE /\ element.name \in
               {"div", "p", "h1", "h2", "h3", "h4", "h5", "h6", "ul", "ol",
                "li", "blockquote", "pre", "hr", "table", "form", "fieldset",
                "address"}
          /\ ~StyleContains(element.style, "float", "left")

(***************************************************************************)
(* The traversal: what the routines return                                 *)
(***************************************************************************)
\* A list of nodes as a returned value (a routine returns None, one node
\* or a list of nodes).
NodeList(items) == [type |-> "list", items |-> items]

\* `nodes[0] if len(nodes) == 1 else nodes if nodes else None`
collapse(ns) ==
  IF Len(ns) = 1 THEN Some(ns[1])
  ELSE IF ns # <<>> THEN Some(NodeList(ns))
  ELSE None

\* `if result: nodes.extend(result) if isinstance(result, list) else
\* nodes.append(result)`; a node is always truthy, an empty list is not.
extend(ns, result) ==
  IF result = None THEN ns
  ELSE IF result[1].type = "list" THEN ns \o result[1].items
  ELSE Append(ns, result[1])

\* flush_text() without the test of the joined text: a buffer that is not
\* empty always gives a TextBlock.
flush_text_unchecked(ns, text_parts, style) ==
  IF text_parts # <<>>
  THEN [nodes |-> Append(ns, TextBlockNode(
                    Strip(Join(text_parts, <<" ">>)), style, {})),
        text_parts |-> <<>>]
  ELSE [nodes |-> ns, text_parts |-> text_parts]

\* flush_text() of both traversal modes: the `nodes` and `text_parts`
\* it leaves behind.
flush_text(ns, text_parts, style) ==
  IF text_parts # <<>>
  THEN LET text == Strip(Join(text_parts, <<" ">>))
       IN [nodes |-> IF text # <<>>
                     THEN Append(ns, TextBlockNode(text, style, {}))
                     ELSE ns,
           text_parts |-> <<>>]
  ELSE [nodes |-> ns, text_parts |-> text_parts]

\* _process_inline_content(element, style); inline_loop is its loop over
\* the children, with the locals `nodes` and `text_parts`.  "ZWSP" is the
\* zero-width space U+200B.
RECURSIVE process_inline_content(_, _)
RECURSIVE inline_loop(_, _, _, _)
inline_loop(children, ns, text_parts, style) ==
  IF children = <<>> THEN [nodes |-> ns, text_parts |-> text_parts]
  ELSE
    LET c == Head(children)
        rest == Tail(children)
        last_is_newline ==
          text_parts # <<>> /\ text_parts[Len(text_parts)] = <<"\n">>
    IN
      IF ~IsTag(c)
      THEN IF Strip(c.text) # <<>> /\ Strip(c.text) # <<"ZWSP">>
           THEN inline_loop(rest, ns, Append(text_parts, Strip(c.text)), style)
           ELSE inline_loop(rest, ns, text_parts, style)
      ELSE IF c.name = "br"
      THEN inline_loop(rest, ns, Append(text_parts, <<"\n">>), style)
      ELSE IF c.name = "p"
      THEN LET flushed == flush_text(ns, text_parts, style)
               para_style == merge(parse_style(c.style), Some(style))
               para_result == process_paragraph(c, para_style)
           IN IF para_result # None
              THEN inline_loop(
                     rest, Append(flushed.nodes, para_result[1]),
                     IF /\ flushed.text_parts # <<>>
                        /\ flushed.text_parts[Len(flushed.text_parts)]
                             # <<"\n">>
                     THEN Append(flushed.text_parts, <<"\n">>)
                     ELSE flushed.text_parts,
                     style)
              ELSE inline_loop(rest, flushed.nodes, flushed.text_parts, style)
      ELSE IF c.name = "font"
      THEN LET text == Strip(get_text_with_spacing(c))
           IN inline_loop(rest, ns,
                          IF text # <<>> THEN Append(text_parts, text)
                          ELSE text_parts,
                          style)
      ELSE IF c.name = "div"
      THEN IF parse_style(c.style).display = Some("float:left")
           THEN LET bullet_text == Strip(get_text(c))
                IN inline_loop(rest, ns,
                               IF bullet_text # <<>>
                               THEN Append(text_parts, bullet_text \o <<" ">>)
                               ELSE text_parts,
                               style)
           ELSE IF StyleContains(c.style, "clear", "both")
           THEN inline_loop(rest, ns,
                            IF text_parts # <<>> /\ ~last_is_newline
                            THEN Append(text_parts, <<"\n">>)
                            ELSE text_parts,
                            style)
           ELSE LET inner_result == process_inline_content(c, style)
                    flushed == flush_text(ns, text_parts, style)
                IN IF inner_result # None
                   THEN inline_loop(rest, extend(flushed.nodes, inner_result),
                                    flushed.text_parts, style)
                   ELSE inline_loop(rest, ns, text_parts, style)
      ELSE IF ~is_block_element(c)
      THEN LET text == Strip(get_text_with_spacing(c))
           IN inline_loop(rest, ns,
                          IF text # <<>> THEN Append(text_parts, text)
                          ELSE text_parts,
                          style)
      ELSE inline_loop(rest, ns, text_parts, style)

process_inline_content(element, style) ==
  LET looped == inline_loop(element.children, <<>>, <<>>, style)
      flushed == flush_text(looped.nodes, looped.text_parts, style)
      text == Strip(Join(flushed.text_parts, <<" ">>))
  IN IF Len(flushed.nodes) = 1 THEN Some(flushed.nodes[1])
     ELSE IF Len(flushed.nodes) > 1 THEN Some(NodeList(flushed.nodes))
     ELSE IF Len(flushed.text_parts) > 0 /\ text # <<>>
     THEN Some(TextBlockNode(text, style, {}))
     ELSE None

(***************************************************************************)
(* The traversal: elements by their path                                   *)
(*                                                                         *)
(* An element below the body is named by its path, the positions to go     *)
(* through from the body's children downwards.                             *)
(***************************************************************************)
RECURSIVE ElementAt(_, _)
ElementAt(el, path) ==
  IF path = <<>> THEN el
  ELSE ElementAt(el.children[Head(path)], Tail(path))

\* The paths of the Tags at and below el.
RECURSIVE Paths(_)
Paths(el) ==
  {<<>>} \cup
    UNION {{<<k>> \o q : q \in Paths(el.children[k])} :
             k \in {j \in 1..Len(el.children) : IsTag(el.children[j])}}

IsProperPrefix(p, q) == Len(p) < Len(q) /\ SubSeq(q, 1, Len(p)) = p

\* Phase 1 of _process_element for the element at path: the elements that
\* get has_table, the ancestors of every table below it, up to the root.
marked(root, path) ==
  {q \in Paths(root) :
     \E t \in Paths(root) :
       /\ ElementAt(root, t).name = "table"
       /\ IsProperPrefix(path, t)
       /\ IsProperPrefix(q, t)}

\* The names of the ancestors of the element at path, outermost first.
AncNames(root, path) ==
  [k \in 1..Len(path) |-> ElementAt(root, SubSeq(path, 1, k - 1)).name]

\* element.name.startswith('ix:')
IsIx(name) == name \in {"ix:nonnumeric", "ix:nonfraction"}

HeadingNames == {"h1", "h2", "h3", "h4", "h5", "h6"}

\* int(element.name[1])
HeadingLevel(name) ==
  CASE name = "h1" -> 1 [] name = "h2" -> 2 [] name = "h3" -> 3
    [] name = "h4" -> 4 [] name = "h5" -> 5 [] name = "h6" -> 6

\* self.base_font_size = 10.0, in hundredths like every numeric style value.
base_font_size == 1000

BoldWeights == {"bold", "700", "800", "900"}

\* The list `hints` of _looks_like_header; None, 0.0 and '' are falsy.
hints(element, style, text) ==
  <<style.font_weight # None /\ style.font_weight[1] \in BoldWeights,
    style.margin_top # None /\ style.margin_top[1] > 1800,
    Len(Words(text)) <= 8,
    find_all(element.children, {"table"}, <<>>) = <<>>,
    find_all(element.children, HeadingNames \cup {"p"}, <<>>) = <<>>,
    style.font_size # None /\ 10 * style.font_size[1] >= 12 * base_font_size>>

\* sum(hints)
sum(hs) == Cardinality({k \in 1..Len(hs) : hs[k]})

\* _looks_like_header with any four hints being enough, the bold one or
\* not.
looks_like_header_any_four(element, style) ==
  IF find_all(element.children, {"span"}, <<>>) # <<>> THEN FALSE
  ELSE IF get_text_strip(element) = <<>> THEN FALSE
  ELSE sum(hints(element, style, get_text_strip(element))) >= 4

\* _looks_like_header(element, style)
looks_like_header(element, style) ==
  IF find_all(element.children, {"span"}, <<>>) # <<>> THEN FALSE
  ELSE IF get_text_strip(element) = <<>> THEN FALSE
  ELSE /\ sum(hints(element, style, get_text_strip(element))) >= 4
       /\ hints(element, style, get_text_strip(element))[1]

\* _determine_heading_level with the size ratio having to exceed each
\* threshold (`>` for `>=`).
determine_heading_level_strict(style) ==
  IF style = None THEN 2
  ELSE IF /\ style[1].font_size # None
          /\ 10 * style[1].font_size[1] > 18 * base_font_size
  THEN 1
  ELSE IF /\ style[1].font_size # None
          /\ 10 * style[1].font_size[1] > 14 * base_font_size
  THEN 2
  ELSE IF /\ style[1].font_size # None
          /\ 10 * style[1].font_size[1] > 12 * base_font_size
  THEN 3
  ELSE IF style[1].font_weight # None
            /\ style[1].font_weight[1] \in BoldWeights
  THEN 3
  ELSE 4

\* _determine_heading_level(style); `not style` holds for None only, a
\* StyleInfo being always truthy, and a font_size of 0.0 is falsy.
determine_heading_level(style) ==
  IF style = None THEN 2
  ELSE IF /\ style[1].font_size # None
          /\ style[1].font_size[1] # 0
          /\ 10 * style[1].font_size[1] >= 18 * base_font_size
  THEN 1
  ELSE IF /\ style[1].font_size # None
          /\ style[1].font_size[1] # 0
          /\ 10 * style[1].font_size[1] >= 14 * base_font_size
  THEN 2
  ELSE IF /\ style[1].font_size # None
          /\ style[1].font_size[1] # 0
          /\ 10 * style[1].font_size[1] >= 12 * base_font_size
  THEN 3
  ELSE IF style[1].font_weight # None
            /\ style[1].font_weight[1] \in BoldWeights
  THEN 3
  ELSE 4

(***************************************************************************)
(* The traversal: parse, _parse_element, _process_element and              *)
(* _process_structured_content, one step at a time                         *)
(*                                                                         *)
(* A frame of the call stack holds the routine, the path of its element,   *)
(* where control is, the position `i` of the loop over the children, the   *)
(* locals `nodes` and `text_parts`, the style (current_style, or the       *)
(* `style` parameter), the length of style_stack when the call began, and  *)
(* for _process_element what the try block ended with.                     *)
(***************************************************************************)
Frame(fn, path, pc, style, depth) ==
  [fn |-> fn, path |-> path, pc |-> pc, i |-> 1, nodes |-> <<>>,
   text_parts |-> <<>>, style |-> style, depth |-> depth, out |-> None]

\* A value or an exception on its way to the caller of frame f.
Outcome(o, f) ==
  [kind |-> o.kind, value |-> o.value, fn |-> f.fn, path |-> f.path,
   depth |-> f.depth]

Top == frames[Len(frames)]
SetTop(f) == [frames EXCEPT ![Len(frames)] = f]
Pop == SubSeq(frames, 1, Len(frames) - 1)
Running(fn) == parse_pc = "running" /\ frames # <<>> /\ Top.fn = fn

\* The call self._process_element(child) made from frame f.
CallProcessElement(f, cpath) ==
  Append(SetTop(f),
         Frame("_process_element", cpath, "enter", StyleInfo,
               Len(style_stack)))

\* The call self._process_structured_content(child, style) made from f.
CallStructured(f, cpath, style) ==
  Append(SetTop(f),
         Frame("_process_structured_content", cpath, "loop", style,
               Len(style_stack)))

ParseIdle ==
  /\ body = None
  /\ has_table = {}
  /\ style_stack = <<>>
  /\ frames = <<>>
  /\ ret = None
  /\ document = None
  /\ parse_pc = "idle"

\* parse() returning a Document of no nodes when there is no body.
parse_empty_document ==
  /\ parse_pc = "start"
  /\ IF body = None
     THEN /\ parse_pc' = "done"
          /\ frames' = frames
          /\ document' = Some(<<>>)
     ELSE /\ parse_pc' = "running"
          /\ frames' = <<Frame("_parse_element", <<>>, "loop", StyleInfo, 0)>>
          /\ document' = document
  /\ UNCHANGED <<body, has_table, style_stack, ret>>

\* parse(): without a body it returns None, else it calls _parse_element.
parse ==
  /\ parse_pc = "start"
  /\ IF body = None
     THEN /\ parse_pc' = "done"
          /\ frames' = frames
     ELSE /\ parse_pc' = "running"
          /\ frames' = <<Frame("_parse_element", <<>>, "loop", StyleInfo, 0)>>
  /\ UNCHANGED <<body, has_table, style_stack, ret, document>>

\* _parse_element(body): one turn of the loop over the children, or, after
\* the last child, the merge pass and the return of parse.
parse_element ==
  /\ Running("_parse_element")
  /\ ret = None
  /\ LET f == Top
         children == body[1].children
     IN IF f.i > Len(children)
        THEN /\ document' = Some(merge_adjacent_nodes(f.nodes))
             /\ frames' = <<>>
             /\ parse_pc' = "done"
        ELSE /\ frames' = IF IsTag(children[f.i])
                          THEN CallProcessElement(f, <<f.i>>)
                          ELSE SetTop([f EXCEPT !.i = @ + 1])
             /\ UNCHANGED <<document, parse_pc>>
  /\ UNCHANGED <<body, has_table, style_stack, ret>>

\* _parse_element: _process_element(child) came back.  There is no handler
\* in _parse_element or parse, so an exception leaves parse.
parse_element_receive ==
  /\ Running("_parse_element")
  /\ ret # None
  /\ IF ret[1].kind = "return"
     THEN /\ frames' = SetTop([Top EXCEPT !.nodes = extend(@, ret[1].value),
                                          !.i = @ + 1])
          /\ ret' = None
          /\ parse_pc' = parse_pc
     ELSE /\ frames' = <<>>
          /\ ret' = Some(Outcome(Raised(ret[1].value), Top))
          /\ parse_pc' = "raised"
  /\ UNCHANGED <<body, has_table, style_stack, document>>

\* The finally clause of _process_element with the pop left out when the
\* try block raised.
finally_clause_on_return(stack, out) ==
  IF out.kind = "return" THEN SubSeq(stack, 1, Len(stack) - 1) ELSE stack

\* The finally clause of _process_element: style_stack after the try
\* block ended with `out`, a return or an exception.
finally_clause(stack, out) == SubSeq(stack, 1, Len(stack) - 1)

\* _process_element, up to the try statement: the has_table marks, the
\* element's style merged with the top of the stack, and the push.
process_element_enter ==
  /\ Running("_process_element")
  /\ Top.pc = "enter"
  /\ LET f == Top
         element == ElementAt(body[1], f.path)
         own == parse_style(element.style)
         current_style ==
           IF style_stack # <<>>
           THEN merge(own, Some(style_stack[Len(style_stack)]))
           ELSE own
     IN /\ has_table' = has_table \cup marked(body[1], f.path)
        /\ style_stack' = Append(style_stack, current_style)
        /\ frames' = SetTop([f EXCEPT !.pc = "try", !.style = current_style])
  /\ UNCHANGED <<body, ret, document, parse_pc>>

\* The try block of _process_element with a div that _looks_like_header
\* accepts turned into a heading of the level _determine_heading_level
\* gives.
process_element_try_heuristic ==
  /\ Running("_process_element")
  /\ Top.pc = "try"
  /\ LET f == Top
         element == ElementAt(body[1], f.path)
         done(o) == SetTop([f EXCEPT !.pc = "finally", !.out = Some(o)])
     IN frames' =
          IF IsIx(element.name) THEN SetTop([f EXCEPT !.pc = "ix"])
          ELSE IF element.name = "table"
          THEN done(process_table(element, AncNames(body[1], f.path)))
          ELSE IF element.name \in HeadingNames
          THEN done(Returned(Some(HeadingNode(get_text_strip(element), f.style,
                                              HeadingLevel(element.name),
                                              {}))))
          ELSE IF element.name = "p"
          THEN done(Returned(process_paragraph(element, f.style)))
          ELSE IF element.name = "div" /\ looks_like_header(element, f.style)
          THEN done(Returned(Some(HeadingNode(
                 get_text_strip(element), f.style,
                 determine_heading_level(Some(f.style)), {}))))
          ELSE IF element.name = "div"
          THEN IF f.path \in has_table
               THEN CallStructured([f EXCEPT !.pc = "div"], f.path, f.style)
               ELSE done(Returned(process_inline_content(element, f.style)))
          ELSE SetTop([f EXCEPT !.pc = "children"])
  /\ UNCHANGED <<body, has_table, style_stack, ret, document, parse_pc>>

\* _process_element: the dispatch on the element's name.
process_element_try ==
  /\ Running("_process_element")
  /\ Top.pc = "try"
  /\ LET f == Top
         element == ElementAt(body[1], f.path)
         done(o) == SetTop([f EXCEPT !.pc = "finally", !.out = Some(o)])
     IN frames' =
          IF IsIx(element.name) THEN SetTop([f EXCEPT !.pc = "ix"])
          ELSE IF element.name = "table"
          THEN done(process_table(element, AncNames(body[1], f.path)))
          ELSE IF element.name \in HeadingNames
          THEN done(Returned(Some(HeadingNode(get_text_strip(element), f.style,
                                              HeadingLevel(element.name),
                                              {}))))
          ELSE IF element.name = "p"
          THEN done(Returned(process_paragraph(element, f.style)))
          ELSE IF element.name = "div"
          THEN IF f.path \in has_table
               THEN CallStructured([f EXCEPT !.pc = "div"], f.path, f.style)
               ELSE done(Returned(process_inline_content(element, f.style)))
          ELSE SetTop([f EXCEPT !.pc = "children"])
  /\ UNCHANGED <<body, has_table, style_stack, ret, document, parse_pc>>

\* _process_element of an ix: element: one turn of the loop over the
\* children, or the return after the last one.
process_element_ix ==
  /\ Running("_process_element")
  /\ Top.pc = "ix"
  /\ ret = None
  /\ LET f == Top
         children == ElementAt(body[1], f.path).children
         c == children[f.i]
         cpath == Append(f.path, f.i)
         table_node == process_table(c, AncNames(body[1], cpath))
         para_node == process_paragraph(c, f.style)
         div_style == merge(parse_style(c.style), Some(f.style))
         continue(ns) == SetTop([f EXCEPT !.nodes = ns, !.i = @ + 1])
     IN frames' =
          IF f.i > Len(children)
          THEN SetTop([f EXCEPT !.pc = "finally",
                                !.out = Some(Returned(collapse(f.nodes)))])
          ELSE IF ~IsTag(c) THEN continue(f.nodes)
          ELSE IF c.name = "table"
          THEN IF table_node.kind = "raise"
               THEN SetTop([f EXCEPT !.pc = "finally", !.out = Some(table_node)])
               ELSE continue(extend(f.nodes, table_node.value))
          ELSE IF c.name = "p" THEN continue(extend(f.nodes, para_node))
          ELSE IF c.name = "div" THEN CallStructured(f, cpath, div_style)
          ELSE CallProcessElement(f, cpath)
  /\ UNCHANGED <<body, has_table, style_stack, ret, document, parse_pc>>

\* _process_element of any other element: one turn of the loop over the
\* children, or the return after the last one.
process_element_children ==
  /\ Running("_process_element")
  /\ Top.pc = "children"
  /\ ret = None
  /\ LET f == Top
         children == ElementAt(body[1], f.path).children
     IN frames' =
          IF f.i > Len(children)
          THEN SetTop([f EXCEPT !.pc = "finally",
                                !.out = Some(Returned(collapse(f.nodes)))])
          ELSE IF IsTag(children[f.i])
          THEN CallProcessElement(f, Append(f.path, f.i))
          ELSE SetTop([f EXCEPT !.i = @ + 1])
  /\ UNCHANGED <<body, has_table, style_stack, ret, document, parse_pc>>

\* _process_element: a call it made came back.  The result of the
\* structured processing of a div is returned as it is, any other result
\* joins `nodes`; an exception ends the try block.
process_element_receive ==
  /\ Running("_process_element")
  /\ ret # None
  /\ LET f == Top
     IN frames' =
          IF ret[1].kind = "raise"
          THEN SetTop([f EXCEPT !.pc = "finally",
                                !.out = Some(Raised(ret[1].value))])
          ELSE IF f.pc = "div"
          THEN SetTop([f EXCEPT !.pc = "finally",
                                !.out = Some(Returned(ret[1].value))])
          ELSE SetTop([f EXCEPT !.nodes = extend(@, ret[1].value),
                                !.i = @ + 1])
  /\ ret' = None
  /\ UNCHANGED <<body, has_table, style_stack, document, parse_pc>>

\* _process_element: the finally clause, then control is back in the
\* caller with the value returned or the exception raised.
process_element_finally ==
  /\ Running("_process_element")
  /\ Top.pc = "finally"
  /\ style_stack' = finally_clause(style_stack, Top.out[1])
  /\ frames' = Pop
  /\ ret' = Some(Outcome(Top.out[1], Top))
  /\ UNCHANGED <<body, has_table, document, parse_pc>>

\* _process_structured_content: one turn of the loop over the children,
\* or the last flush and the return.  An exception of _process_table
\* leaves the routine.
process_structured_content ==
  /\ Running("_process_structured_content")
  /\ ret = None
  /\ LET f == Top
         children == ElementAt(body[1], f.path).children
         c == children[f.i]
         cpath == Append(f.path, f.i)
         flushed == flush_text(f.nodes, f.text_parts, f.style)
         table_node == process_table(c, AncNames(body[1], cpath))
         text == IF IsTag(c) THEN Strip(get_text_with_spacing(c))
                 ELSE Strip(c.text)
         leave(o) == [frames |-> Pop, ret |-> Some(Outcome(o, f))]
         stay(g) == [frames |-> g, ret |-> None]
         step ==
           IF f.i > Len(children)
           THEN leave(Returned(collapse(flushed.nodes)))
           ELSE IF IsTag(c) /\ c.name = "table"
           THEN IF table_node.kind = "raise" THEN leave(table_node)
                ELSE stay(SetTop([f EXCEPT
                            !.nodes = extend(flushed.nodes, table_node.value),
                            !.text_parts = flushed.text_parts,
                            !.i = @ + 1]))
           ELSE IF IsTag(c) /\ cpath \in has_table
           THEN stay(CallProcessElement(
                       [f EXCEPT !.nodes = flushed.nodes,
                                 !.text_parts = flushed.text_parts],
                       cpath))
           ELSE stay(SetTop([f EXCEPT
                       !.text_parts = IF text # <<>> THEN Append(@, text)
                                      ELSE @,
                       !.i = @ + 1]))
     IN /\ frames' = step.frames
        /\ ret' = step.ret
  /\ UNCHANGED <<body, has_table, style_stack, document, parse_pc>>

\* _process_structured_content: _process_element(child) came back; there
\* is no handler, so an exception leaves the routine.
process_structured_receive ==
  /\ Running("_process_structured_content")
  /\ ret # None
  /\ IF ret[1].kind = "return"
     THEN /\ frames' = SetTop([Top EXCEPT !.nodes = extend(@, ret[1].value),
                                          !.i = @ + 1])
          /\ ret' = None
     ELSE /\ frames' = Pop
          /\ ret' = Some(Outcome(Raised(ret[1].value), Top))
  /\ UNCHANGED <<body, has_table, style_stack, document, parse_pc>>

(***************************************************************************)
(* StyleInfo.merge on bounded inputs                                       *)
(***************************************************************************)
\* At most this many of the nine fields are present on the child or on the
\* parent of one drawn pair.
MaxActiveFields == 2

\* Two present values per field, the first falsy in Python where the
\* field's type has a falsy value (a Width object is always truthy).
FieldValues(f) ==
  CASE f = "display" -> <<"", "block">>
    [] f = "margin_top" -> <<0, 20>>
    [] f = "margin_bottom" -> <<0, 10>>
    [] f = "font_size" -> <<0, 14>>
    [] f = "font_weight" -> <<"", "bold">>
    [] f = "text_align" -> <<"", "right">>
    [] f = "line_height" -> <<0, 12>>
    [] f = "width" -> <<Width(0, "px"), Width(50, "%")>>
    [] f = "text_decoration" -> <<"", "underline">>

FieldOption(f, i) == IF i = 0 THEN None ELSE Some(FieldValues(f)[i])

ActiveSets == {S \in SUBSET Fields : Cardinality(S) <= MaxActiveFields}

\* Pairs <<child, parent>> of StyleInfo in which exactly the fields of S
\* are present on at least one side.
StylePairs(S) ==
  {<<[f \in Fields |-> IF f \in S THEN FieldOption(f, a[f][1]) ELSE None],
     [f \in Fields |-> IF f \in S THEN FieldOption(f, a[f][2]) ELSE None]>> :
     a \in [S -> ((0..2) \X (0..2)) \ {<<0, 0>>}]}

InitStyle ==
  /\ ParseIdle
  /\ CallIdle
  /\ MergeIdle
  /\ TableIdle
  /\ merged_style = None
  /\ \E S \in ActiveSets : \E cp \in StylePairs(S) :
       /\ child = cp[1]
       /\ \/ parent = Some(cp[2])
          \/ parent = None

\* merged_style = child.merge(parent)
CallMerge ==
  /\ merged_style = None
  /\ merged_style' = Some(merge(child, parent))
  /\ UNCHANGED <<child, parent>>
  /\ UNCHANGED notStyleVars

NextStyle == CallMerge

SpecStyle == InitStyle /\ [][NextStyle]_vars

\* C10: for every field independently, child.merge(parent) has the child's
\* value when the child's field is present and the parent's value when the
\* field is present on the parent only; the call leaves child and parent as
\* they were.
CascadePrecedence ==
  [][(merged_style = None /\ merged_style' # None /\ parent # None) =>
       /\ \A f \in Fields :
            /\ child[f] # None => merged_style'[1][f] = child[f]
            /\ (child[f] = None /\ parent[1][f] # None) =>
                 merged_style'[1][f] = parent[1][f]
       /\ child' = child
       /\ parent' = parent]_vars

\* A merge has returned where one field is present on both sides with
\* different values (the child's falsy) and another on the parent only.
CascadePrecedenceWitness ==
  /\ merged_style # None
  /\ parent # None
  /\ \E f, g \in Fields :
       /\ f # g
       /\ child[f] # None
       /\ ~Truthy(f, child[f])
       /\ parent[1][f] # None
       /\ parent[1][f] # child[f]
       /\ child[g] = None
       /\ parent[1][g] # None
       /\ merged_style[1][g] = parent[1][g]

\* C11: S.merge(S) equals S field by field, and S.merge(None) is S.
SelfMergeIdentity ==
  merged_style # None =>
    /\ parent = Some(child) => \A f \in Fields : merged_style[1][f] = child[f]
    /\ parent = None => merged_style[1] = child

\* A style with a present field, one of them falsy, was merged with
\* itself as parent.
SelfMergeIdentityWitness ==
  /\ merged_style # None
  /\ parent = Some(child)
  /\ \E f \in Fields : child[f] # None /\ ~Truthy(f, child[f])

\* A style with a present field was merged with no parent.
MergeNoneWitness ==
  /\ merged_style # None
  /\ parent = None
  /\ child # StyleInfo

(***************************************************************************)
(* _merge_adjacent_nodes on bounded raw node lists                         *)
(***************************************************************************)
\* The longest raw node list drawn.
MaxNodes == 3

AlignStyle(a) == [StyleInfo EXCEPT !.text_align = a]

TextContents == {<<"a">>, <<"b">>}

\* The style of a raw TextBlock: the text-align drawn, and margins that go
\* with the content, 'a' with a top margin only, 'b' with a bottom margin
\* only.
RawStyle(c, a) ==
  [AlignStyle(a) EXCEPT
     !.margin_top = IF c = <<"a">> THEN Some(100) ELSE None,
     !.margin_bottom = IF c = <<"b">> THEN Some(200) ELSE None]

RawTextBlocks ==
  {TextBlockNode(c, RawStyle(c, a), m) :
     c \in TextContents,
     a \in {None, Some("left"), Some("right")},
     m \in {{}, {<<"k", "v">>}}}

RawNodes ==
  RawTextBlocks
    \cup {HeadingNode(<<"h">>, StyleInfo, 2, {}),
          TableNode(<<"rows">>, StyleInfo, TableMetadata)}

InitMerge ==
  /\ ParseIdle
  /\ CallIdle
  /\ StyleIdle
  /\ TableIdle
  /\ \E n \in 0..MaxNodes : nodes \in [1..n -> RawNodes]
  /\ node_i = 0
  /\ current = None
  /\ merged = <<>>
  /\ merge_pc = "start"

NextMerge ==
  \/ (MergeEmpty /\ UNCHANGED notMergeVars)
  \/ (MergeBegin /\ UNCHANGED notMergeVars)
  \/ (MergeFirst /\ UNCHANGED notMergeVars)
  \/ (MergeAbsorb /\ UNCHANGED notMergeVars)
  \/ (MergeEmit /\ UNCHANGED notMergeVars)
  \/ (MergeReturn /\ UNCHANGED notMergeVars)

SpecMerge == InitMerge /\ [][NextMerge]_vars

\* The stepwise loop and the function agree on the returned list.
MergeLoopAgrees ==
  merge_pc = "done" => merged = merge_adjacent_nodes(nodes)

\* A raw TextBlock that carries no metadata.
PlainText(n) == n.type = "text_block" /\ n.metadata = {}

RECURSIVE CountBreaks(_)
CountBreaks(text) ==
  IF text = <<>> THEN 0
  ELSE (IF Head(text) = "\n" THEN 1 ELSE 0) + CountBreaks(Tail(text))

\* How many raw nodes an output node stands for (no raw content of
\* RawNodes holds a line break, so every "\n\n" was put there by a merge).
GroupSize(n) ==
  IF n.type = "text_block" THEN 1 + CountBreaks(n.content) \div 2 ELSE 1

RECURSIVE SizeSum(_, _)
SizeSum(out, k) == IF k = 0 THEN 0 ELSE SizeSum(out, k - 1) + GroupSize(out[k])

\* The index of the output node that raw node i went into.
OutIdx(i) ==
  CHOOSE k \in 1..Len(merged) :
    SizeSum(merged, k - 1) < i /\ i <= SizeSum(merged, k)

IsPrefix(p, t) == Len(p) <= Len(t) /\ SubSeq(t, 1, Len(p)) = p
IsSuffix(p, t) ==
  Len(p) <= Len(t) /\ SubSeq(t, Len(t) - Len(p) + 1, Len(t)) = p
IsInfix(p, t) ==
  \E k \in 0..(Len(t) - Len(p)) : SubSeq(t, k + 1, k + Len(p)) = p

\* C2: two adjacent raw TextBlocks without metadata end up in one output
\* TextBlock, their contents joined by "\n\n", if and only if their
\* text-align values are equal; otherwise they are two separate output
\* nodes in their original order.  A list of just these two nodes gives
\* exactly the merged node, or exactly the two nodes.
MergeEligibilityVeto ==
  merge_pc = "done" =>
    /\ SizeSum(merged, Len(merged)) = Len(nodes)
    /\ \A i \in 1..(Len(nodes) - 1) :
         (PlainText(nodes[i]) /\ PlainText(nodes[i + 1])) =>
           IF nodes[i].style.text_align = nodes[i + 1].style.text_align
           THEN /\ OutIdx(i) = OutIdx(i + 1)
                /\ merged[OutIdx(i)].type = "text_block"
                /\ IsInfix(nodes[i].content \o <<"\n", "\n">>
                             \o nodes[i + 1].content,
                           merged[OutIdx(i)].content)
           ELSE /\ OutIdx(i + 1) = OutIdx(i) + 1
                /\ IsSuffix(nodes[i].content, merged[OutIdx(i)].content)
                /\ IsPrefix(nodes[i + 1].content,
                            merged[OutIdx(i + 1)].content)
    /\ (Len(nodes) = 2 /\ PlainText(nodes[1]) /\ PlainText(nodes[2])) =>
         IF nodes[1].style.text_align = nodes[2].style.text_align
         THEN /\ Len(merged) = 1
              /\ merged[1].type = "text_block"
              /\ merged[1].content =
                   nodes[1].content \o <<"\n", "\n">> \o nodes[2].content
         ELSE merged = nodes

\* The pass has returned for two plain TextBlocks with equal text-align
\* followed by a plain TextBlock whose text-align is absent.
MergeEligibilityVetoWitness ==
  /\ merge_pc = "done"
  /\ Len(nodes) = 3
  /\ \A i \in 1..3 : PlainText(nodes[i])
  /\ nodes[1].style.text_align = Some("left")
  /\ nodes[2].style.text_align = Some("left")
  /\ nodes[3].style.text_align = None
  /\ Len(merged) = 2

\* Raw nodes i..j form a run: all plain TextBlocks with the text-align of
\* the first (the running merged node keeps the first node's text-align and
\* has no metadata).
RunOK(i, j) ==
  \A k \in i..j :
    PlainText(nodes[k]) /\ nodes[k].style.text_align = nodes[i].style.text_align

\* The last raw node of the run that starts at i.
RunEnd(i) ==
  CHOOSE j \in i..Len(nodes) :
    /\ j = i \/ RunOK(i, j)
    /\ \A l \in (j + 1)..Len(nodes) : ~RunOK(i, l)

RECURSIVE RunStarts(_)
RunStarts(i) ==
  IF i > Len(nodes) THEN <<>> ELSE <<i>> \o RunStarts(RunEnd(i) + 1)

RECURSIVE JoinContents(_, _)
JoinContents(i, j) ==
  IF i = j THEN nodes[i].content
  ELSE JoinContents(i, j - 1) \o <<"\n", "\n">> \o nodes[j].content

\* C3: every run of k >= 2 consecutive raw nodes, each merge-eligible with
\* the running merged node, gives exactly one output TextBlock whose
\* content is the k contents in order joined by "\n\n"; the first node that
\* is not eligible ends the run and starts the next one.
MergeAbsorbsRuns ==
  merge_pc = "done" =>
    LET starts == RunStarts(1)
    IN /\ Len(merged) = Len(starts)
       /\ \A r \in 1..Len(starts) :
            LET i == starts[r]
                j == RunEnd(i)
            IN IF j = i
               THEN merged[r] = nodes[i]
               ELSE /\ merged[r].type = "text_block"
                    /\ merged[r].content = JoinContents(i, j)

\* The pass has returned for a run of two followed by a node that is not
\* eligible, and for a run of three.
MergeAbsorbsRunsWitness ==
  /\ merge_pc = "done"
  /\ Len(nodes) = 3
  /\ RunOK(1, 2)
  /\ ~RunOK(1, 3)
  /\ Len(merged) = 2
  /\ merged[1].content =
       nodes[1].content \o <<"\n", "\n">> \o nodes[2].content
  /\ merged[2] = nodes[3]

\* C22: the node that stands for a run of merged raw nodes has the
\* margin-top of the run's first node and the margin-bottom of its last
\* node, whether these are present or absent; for a run of two these are
\* the first and the second node of the one merge.
MarginsFromEnds ==
  merge_pc = "done" =>
    /\ Len(merged) = Len(RunStarts(1))
    /\ \A r \in 1..Len(merged) :
         RunEnd(RunStarts(1)[r]) > RunStarts(1)[r] =>
           /\ merged[r].style.margin_top =
                nodes[RunStarts(1)[r]].style.margin_top
           /\ merged[r].style.margin_bottom =
                nodes[RunEnd(RunStarts(1)[r])].style.margin_bottom

\* A run of three whose first node has no top margin and whose last node
\* has no bottom margin, while the second has a top margin and the first a
\* bottom margin.
MarginsFromEndsWitness ==
  /\ merge_pc = "done"
  /\ Len(nodes) = 3
  /\ Len(merged) = 1
  /\ nodes[1].style.margin_top = None
  /\ nodes[2].style.margin_top # None
  /\ nodes[1].style.margin_bottom # None
  /\ nodes[3].style.margin_bottom = None
  /\ merged[1].style.margin_top = None
  /\ merged[1].style.margin_bottom = None

\* Two nodes the pass would merge: TextBlocks without metadata whose
\* text-align values are equal.
Eligible(n1, n2) ==
  PlainText(n1) /\ PlainText(n2) /\ n1.style.text_align = n2.style.text_align

\* C25: no two adjacent nodes of the output are merge-eligible with each
\* other, and the pass applied to its own output returns that output.
MergeIsFixpoint ==
  merge_pc = "done" =>
    /\ \A k \in 1..(Len(merged) - 1) : ~Eligible(merged[k], merged[k + 1])
    /\ merge_adjacent_nodes(merged) = merged

\* An output of two plain TextBlocks side by side, the second made of two
\* raw nodes.
MergeIsFixpointWitness ==
  /\ merge_pc = "done"
  /\ Len(nodes) = 3
  /\ Len(merged) = 2
  /\ PlainText(merged[1])
  /\ PlainText(merged[2])
  /\ GroupSize(merged[2]) = 2

\* The nodes the pass has to leave alone: headings, tables and nodes with
\* metadata.
Kept(ns) == SelectSeq(ns, LAMBDA n : ~PlainText(n))

\* The contents of the TextBlocks of a list, one after the other.
RECURSIVE TextOf(_)
TextOf(ns) ==
  IF ns = <<>> THEN <<>>
  ELSE (IF Head(ns).type = "text_block" THEN Head(ns).content ELSE <<>>)
         \o TextOf(Tail(ns))

\* C26: the headings, the tables and the nodes with metadata of the raw
\* list are in the output unchanged and in the same order, the text of the
\* output is the text of the raw list in the same order (the line breaks
\* of the merges apart), the output is not longer than the raw list, and
\* the raw list and its nodes are never changed.
MergeLeavesOthersAlone ==
  /\ [](merge_pc = "done" =>
          /\ Kept(merged) = Kept(nodes)
          /\ SelectSeq(TextOf(merged), LAMBDA ch : ch # "\n") = TextOf(nodes)
          /\ Len(merged) <= Len(nodes))
  /\ [][nodes' = nodes]_vars

\* A merged TextBlock after a heading or a table.
MergeLeavesOthersAloneWitness ==
  /\ merge_pc = "done"
  /\ Len(nodes) = 3
  /\ Len(merged) = 2
  /\ merged[1].type \in {"heading", "table"}
  /\ merged[1] = nodes[1]
  /\ GroupSize(merged[2]) = 2
  /\ nodes[2].content # nodes[3].content

(***************************************************************************)
(* _process_table on bounded table elements                                *)
(***************************************************************************)
\* The largest colspan attribute drawn, and the most rows of a drawn table.
MaxColspan == 3
MaxRows == 2

DigitChar(n) == <<"0", "1", "2", "3", "4", "5", "6", "7", "8", "9">>[n + 1]

\* colspan attributes: absent, "0".."MaxColspan", "-1", " 2" and "x".
ColspanAttrs ==
  {None, Some(<<"-", "1">>), Some(<<" ", "2">>), Some(<<"x">>)}
    \cup {Some(<<DigitChar(n)>>) : n \in 0..MaxColspan}

CellStyles ==
  {<<>>,
   <<Prop("text-align", "right")>>,
   <<Prop("text-align", "center")>>,
   <<Prop("TEXT-ALIGN", "RIGHT")>>,
   <<Prop("text-align", "right"), Prop("text-align", "")>>}

CellContents ==
  {<<>>,
   <<Text(<<"A">>)>>,
   <<Text(<<"$", "5">>)>>,
   <<Text(<<" ", "$", "5", " ">>)>>,
   <<Text(<<"A">>), Tag("br", <<>>, <<>>), Text(<<"$">>)>>,
   <<Tag("div", <<>>, <<Text(<<" ", "$", "1">>)>>),
     Tag("div", <<>>, <<Text(<<"B">>)>>)>>,
   <<Tag("b", <<>>, <<Text(<<"$">>)>>), Text(<<"&mdash;">>)>>}

RichCells ==
  {Cell("td", st, cs, ch) :
     st \in CellStyles, cs \in ColspanAttrs, ch \in CellContents}

PlainCell == Cell("td", <<>>, None, <<Text(<<"A">>)>>)
SplitCell ==
  Cell("td", <<Prop("text-align", "right")>>, Some(<<"2">>),
       <<Text(<<"9", "%">>)>>)
InnerTable ==
  Tag("table", <<>>,
      <<Tag("tr", <<>>, <<PlainCell>>), Tag("tr", <<>>, <<>>)>>)

Table(children) == Tag("table", <<>>, children)

\* A tr directly under the table, under a thead or under a tbody.
RowGroups(tr) ==
  {tr, Tag("thead", <<>>, <<tr>>), Tag("tbody", <<>>, <<tr>>)}

SmallRows ==
  {Tag("tr", <<>>, cs) :
     cs \in {<<>>, <<PlainCell>>,
             <<Cell("th", <<>>, None, <<Text(<<"$">>)>>), SplitCell>>,
             <<Cell("td", <<>>, None, <<InnerTable>>)>>}}

SmallGroups == UNION {RowGroups(tr) : tr \in SmallRows}

TableElements ==
  {Table(<<Tag("tr", <<>>, <<c>>)>>) : c \in RichCells}
    \cup {Table(<<Tag("tr", <<>>, <<PlainCell, c>>)>>) : c \in RichCells}
    \cup {Table(g) : g \in SeqsUpTo(SmallGroups, MaxRows)}

\* The names of the ancestors of the table element: a table met below the
\* body, and one met inside a header group.
TableContexts == {<<"body">>, <<"body", "div", "thead", "td">>}

InitTable ==
  /\ ParseIdle
  /\ CallIdle
  /\ StyleIdle
  /\ MergeIdle
  /\ table_el \in {Some(t) : t \in TableElements}
  /\ table_anc \in TableContexts
  /\ tr_i = 1
  /\ td_i = 1
  /\ td = None
  /\ cell_out = None
  /\ cells = <<>>
  /\ row = None
  /\ rows = <<>>
  /\ table_ret = None
  /\ table_pc = "rows"

NextTable ==
  \/ (TableCellStep /\ UNCHANGED notTableVars)
  \/ (TableCellRaises /\ UNCHANGED notTableVars)
  \/ (TableRowStep /\ UNCHANGED notTableVars)
  \/ (TableReturn /\ UNCHANGED notTableVars)

SpecTable == InitTable /\ [][NextTable]_vars

\* The stepwise loops and the function agree on what _process_table gives.
TableStepsAgree ==
  table_ret # None => table_ret[1] = process_table(table_el[1], table_anc)

\* The colspan of the cell process_cell was last called on.
SourceColspan ==
  ParseInt(IF td[1].colspan = None THEN <<"1">> ELSE td[1].colspan[1])[1]

SourceRightAligned == parse_style(td[1].style).text_align = Some("right")

\* C5: a right-aligned source cell with colspan N > 1 and text T gives
\* exactly N cells, each of colspan 1 and align 'right', the first N-1
\* empty and the last holding T; a source cell with colspan 1 gives exactly
\* one cell, whatever its alignment.
ColspanSplit ==
  (cell_out # None /\ table_pc # "raised") =>
    /\ (SourceRightAligned /\ SourceColspan > 1) =>
         /\ Len(cell_out[1]) = SourceColspan
         /\ \A k \in 1..SourceColspan :
              /\ cell_out[1][k].colspan = 1
              /\ cell_out[1][k].align = "right"
              /\ cell_out[1][k].content =
                   IF k < SourceColspan THEN <<>> ELSE extract_cell_text(td[1])
    /\ SourceColspan = 1 => Len(cell_out[1]) = 1

\* process_cell has returned for a right-aligned cell of colspan 3 with a
\* non-empty text.
ColspanSplitWitness ==
  /\ cell_out # None
  /\ SourceRightAligned
  /\ SourceColspan = 3
  /\ Len(cell_out[1]) = 3
  /\ cell_out[1][3].content # <<>>

\* process_cell has returned for a right-aligned cell of colspan 1.
ColspanOneWitness ==
  /\ cell_out # None
  /\ SourceRightAligned
  /\ SourceColspan = 1
  /\ Len(cell_out[1]) = 1

\* C6: every TableCell that process_cell produces has is_currency true if
\* and only if its content begins with '$', the content-holding cell of the
\* right-aligned colspan split included.
CurrencyIffDollar ==
  (cell_out # None /\ table_pc # "raised") =>
    \A k \in 1..Len(cell_out[1]) :
      cell_out[1][k].is_currency <=> StartsWith(cell_out[1][k].content, "$")

\* C7: every TableCell of every Table node has colspan >= 1 and
\* rowspan >= 1, whatever the source cell's colspan attribute is.
SpansAtLeastOne ==
  (table_ret # None /\ table_ret[1].kind = "return"
     /\ table_ret[1].value # None) =>
    \A r \in 1..Len(table_ret[1].value[1].content) :
      \A k \in 1..Len(table_ret[1].value[1].content[r].cells) :
        /\ table_ret[1].value[1].content[r].cells[k].colspan >= 1
        /\ table_ret[1].value[1].content[r].cells[k].rowspan >= 1

\* C8: the TableRow made from a tr has is_header true if and only if the tr
\* has a thead ancestor.
HeaderIffThead ==
  (row # None /\ table_pc = "rows") =>
    (row[1].is_header <=>
       \E k \in 1..Len(CurrentRows[tr_i - 1].anc) :
         CurrentRows[tr_i - 1].anc[k] = "thead")

\* A header row was made from a tr whose parent is not the thead (the tr of
\* a table nested in a header cell), and a non-header row from a tr.
HeaderIffTheadWitness ==
  /\ row # None
  /\ table_pc = "rows"
  /\ row[1].is_header
  /\ row[1].cells # <<>>
  /\ LET anc == CurrentRows[tr_i - 1].anc IN anc[Len(anc)] # "thead"
  /\ \E r \in 1..Len(rows) : ~rows[r].is_header

\* C9: a table whose rows all have zero cells, or that has no row, gives no
\* node; every Table node has at least one row and every row of it has at
\* least one cell.
NoEmptyTable ==
  (table_ret # None /\ table_ret[1].kind = "return") =>
    /\ (\A r \in 1..Len(CurrentRows) : row_cells(CurrentRows[r]) = <<>>) =>
         table_ret[1].value = None
    /\ table_ret[1].value # None =>
         /\ table_ret[1].value[1].type = "table"
         /\ Len(table_ret[1].value[1].content) >= 1
         /\ \A r \in 1..Len(table_ret[1].value[1].content) :
              Len(table_ret[1].value[1].content[r].cells) >= 1

\* A Table node was made from a table with one row without cells and one
\* row with cells.
NoEmptyTableWitness ==
  /\ table_ret # None
  /\ table_ret[1].kind = "return"
  /\ table_ret[1].value # None
  /\ Len(CurrentRows) = 2
  /\ row_cells(CurrentRows[1]) = <<>>
  /\ Len(table_ret[1].value[1].content) = 1

\* No node was made from a table whose only rows have no cells.
EmptyTableWitness ==
  /\ table_ret # None
  /\ table_ret[1].kind = "return"
  /\ table_ret[1].value = None
  /\ Len(CurrentRows) = 2

(***************************************************************************)
(* parse on bounded documents                                              *)
(***************************************************************************)
MaxChildren == 2

Para ==
  Tag("p", <<>>,
      <<Text(<<"H", "i", " ">>), Tag("b", <<>>, <<Text(<<"y", "o">>)>>)>>)
EmptyPara == Tag("p", <<>>, <<>>)
Heading == Tag("h2", <<Prop("font-size", "14pt")>>, <<Text(<<"T">>)>>)
Word == Tag("span", <<>>, <<Text(<<"s">>)>>)

DataTable == Table(<<Tag("tr", <<>>, <<PlainCell>>)>>)
EmptyTable == Table(<<>>)
\* int('x') raises ValueError
BadTable ==
  Table(<<Tag("tr", <<>>,
              <<Cell("td", <<>>, Some(<<"x">>), <<Text(<<"A">>)>>)>>)>>)
NestedTable ==
  Table(<<Tag("tr", <<>>, <<Cell("td", <<>>, None, <<DataTable>>)>>)>>)

TableInPara == Tag("p", <<>>, <<Text(<<"t">>), DataTable>>)
TableInHeading == Tag("h3", <<>>, <<Text(<<"h">>), DataTable>>)
TableInSpan == Tag("span", <<>>, <<DataTable>>)
NoTableInSpan == Tag("span", <<>>, <<EmptyTable>>)
TableInDiv ==
  Tag("div", <<Prop("text-align", "center")>>, <<Text(<<"b">>), DataTable>>)
BadInDiv == Tag("div", <<>>, <<BadTable>>)

\* The children a div is made of.
DivPieces ==
  {Text(<<"a">>), Text(<<" ">>), Word, DataTable, EmptyTable, BadTable,
   NestedTable, TableInPara, TableInSpan, NoTableInSpan, TableInDiv, BadInDiv}

Divs ==
  {Tag("div", <<Prop("font-weight", "bold")>>, ch) :
     ch \in SeqsUpTo(DivPieces, MaxChildren)}

\* The children an ix: element is made of.
IxPieces ==
  {Text(<<"a">>), DataTable, EmptyTable, BadTable, Para, EmptyPara,
   Tag("div", <<>>, <<Text(<<"a">>), DataTable, Text(<<"c">>)>>),
   Tag("div", <<>>, <<Text(<<"a">>)>>),
   Tag("div", <<>>, <<>>),
   TableInSpan,
   Tag("span", <<>>, <<DataTable, DataTable>>),
   Tag("span", <<>>, <<>>)}

IxElements ==
  {Tag("ix:nonnumeric", <<>>, ch) : ch \in SeqsUpTo(IxPieces, MaxChildren)}

\* Divs without a table, processed in content-combining mode.
InlineDivs ==
  {Tag("div", <<>>, ch) :
     ch \in {<<Text(<<"a">>), Tag("br", <<>>, <<>>), Text(<<"ZWSP">>)>>,
             <<Text(<<"a">>), Para, Text(<<"c">>)>>,
             <<Tag("font", <<>>, <<Text(<<"f">>)>>), EmptyPara>>,
             <<Tag("br", <<>>, <<>>)>>,
             <<Tag("br", <<>>, <<>>), Para>>,
             <<Tag("div", <<Prop("float", "left")>>, <<Text(<<"*">>)>>),
               Text(<<"a">>)>>,
             <<Tag("div", <<Prop("display", "float:left")>>,
                   <<Text(<<"*">>)>>),
               Text(<<"a">>)>>,
             <<Text(<<"a">>), Tag("div", <<Prop("clear", "both")>>, <<>>),
               Text(<<"c">>)>>,
             <<Text(<<"a">>), Tag("div", <<>>, <<Text(<<"i">>)>>), Word>>,
             <<Tag("ul", <<>>, <<Text(<<"u">>)>>),
               Tag("ul", <<Prop("display", "inline")>>, <<Text(<<"v">>)>>)>>}}

\* Elements that _process_element hands to the loop over their children.
Spans ==
  {Tag("span", st, ch) :
     st \in {<<>>, <<Prop("font-size", "14pt"), Prop("text-align", "right")>>},
     ch \in {<<Text(<<"a">>), DataTable>>,
             <<TableInDiv, Heading>>,
             <<Tag("span", <<>>, <<>>), Para>>,
             <<Tag("span", <<Prop("text-align", "")>>, <<BadInDiv>>)>>,
             <<BadTable>>}}

\* Three nested elements, each with a style attribute of its own: a field
\* absent, present and falsy ('' and 0), or present.
ChainStyles ==
  {<<>>,
   <<Prop("text-align", "right")>>,
   <<Prop("text-align", "")>>,
   <<Prop("font-size", "0pt"), Prop("font-weight", "bold")>>,
   <<Prop("font-size", "14pt"), Prop("text-align", "center")>>,
   <<Prop("width", "200px"), Prop("font-weight", "")>>}

Chains ==
  {Tag("span", s1, <<Tag("span", s2, <<Tag("span", s3, <<Para>>)>>)>>) :
     s1 \in ChainStyles, s2 \in ChainStyles, s3 \in ChainStyles}

\* A div that is bold, large and set off by a top margin.
TitleDiv ==
  Tag("div",
      <<Prop("font-weight", "bold"), Prop("font-size", "100"),
        Prop("margin-top", "100")>>,
      <<Text(<<"T">>)>>)

Blocks ==
  Divs \cup IxElements \cup InlineDivs \cup Spans
    \cup {Heading, Para, EmptyPara, DataTable, EmptyTable, BadTable,
          NestedTable, TableInHeading, TitleDiv}

\* A heading, a paragraph with an inline tag and a table whose second cell
\* is right-aligned and spans two columns.
ExampleBody ==
  Tag("body", <<>>,
      <<Tag("h2", <<Prop("font-size", "14pt")>>,
            <<Text(<<"T", "i", "t", "l", "e">>)>>),
        Tag("p", <<>>,
            <<Text(<<"H", "e", "l", "l", "o", " ">>),
              Tag("b", <<>>, <<Text(<<"w", "o", "r", "l", "d">>)>>)>>),
        Table(<<Tag("tr", <<>>,
                    <<Cell("td", <<>>, None, <<Text(<<"A">>)>>),
                      Cell("td", <<Prop("text-align", "right")>>,
                           Some(<<"2">>), <<Text(<<"9", "9", "%">>)>>)>>)>>)>>)

\* The body of the root: none, one block, a block between a string and a
\* paragraph, or the example.
Bodies ==
  {None, Some(ExampleBody)}
    \cup {Some(Tag("body", <<>>, <<b>>)) : b \in Blocks \cup Chains}
    \cup {Some(Tag("body", <<>>, <<Text(<<" ">>), b, Para>>)) : b \in Blocks}

Init ==
  /\ StyleIdle
  /\ CallIdle
  /\ MergeIdle
  /\ TableIdle
  /\ body \in Bodies
  /\ has_table = {}
  /\ style_stack = <<>>
  /\ frames = <<>>
  /\ ret = None
  /\ document = None
  /\ parse_pc = "start"

Next ==
  \/ (parse /\ UNCHANGED notParseVars)
  \/ (parse_element /\ UNCHANGED notParseVars)
  \/ (parse_element_receive /\ UNCHANGED notParseVars)
  \/ (process_element_enter /\ UNCHANGED notParseVars)
  \/ (process_element_try /\ UNCHANGED notParseVars)
  \/ (process_element_ix /\ UNCHANGED notParseVars)
  \/ (process_element_children /\ UNCHANGED notParseVars)
  \/ (process_element_receive /\ UNCHANGED notParseVars)
  \/ (process_element_finally /\ UNCHANGED notParseVars)
  \/ (process_structured_content /\ UNCHANGED notParseVars)
  \/ (process_structured_receive /\ UNCHANGED notParseVars)

Spec == Init /\ [][Next]_vars

\* C1: every call of _process_element, however it ends, gives control
\* back with style_stack as long as it was when the call began; the stack
\* is empty once parse has returned or raised; and every call begins with
\* one frame on the stack for each enclosing call of _process_element, so
\* siblings are processed at the same depth.
StackRestored ==
  /\ (ret # None /\ ret[1].fn = "_process_element")
       => Len(style_stack) = ret[1].depth
  /\ parse_pc \in {"done", "raised"} => style_stack = <<>>
  /\ \A k \in 1..Len(frames) :
       (frames[k].fn = "_process_element" /\ frames[k].pc = "enter")
         => /\ Len(style_stack) = frames[k].depth
            /\ frames[k].depth =
                 Cardinality({j \in 1..(k - 1) :
                                frames[j].fn = "_process_element"})

\* An exception leaves a nested call of _process_element and the stack is
\* as long as when that call began.
StackRestoredWitness ==
  /\ ret # None
  /\ ret[1].fn = "_process_element"
  /\ ret[1].kind = "raise"
  /\ ret[1].depth >= 1
  /\ Len(style_stack) = ret[1].depth

\* Both children of an ix: element were processed by nested calls of
\* _process_element that returned normally.
SiblingsSameDepthWitness ==
  /\ ret # None
  /\ ret[1].fn = "_process_element"
  /\ ret[1].kind = "return"
  /\ ret[1].depth >= 1
  /\ ret[1].path[Len(ret[1].path)] = 2
  /\ Len(style_stack) = ret[1].depth

\* A table element with at least one row that has a cell.
HasNonEmptyRow(t) ==
  \E k \in 1..Len(table_rows(t.el, t.anc)) :
    row_cells(table_rows(t.el, t.anc)[k]) # <<>>

\* The table elements below the element at path that have a non-empty
\* row, in document order.
TablesBelow(path) ==
  SelectSeq(find_all(ElementAt(body[1], path).children, {"table"},
                     Append(AncNames(body[1], path),
                            ElementAt(body[1], path).name)),
            HasNonEmptyRow)

\* The text of a string without its whitespace.
Letters(t) == SelectSeq(t, LAMBDA ch : ~IsSpace(ch))

\* The text and the tables of a list of nodes, in order.
RECURSIVE NodeTokens(_)
NodeTokens(ns) ==
  IF ns = <<>> THEN <<>>
  ELSE (IF Head(ns).type = "table" THEN <<"<table>">>
        ELSE Letters(Head(ns).content))
         \o NodeTokens(Tail(ns))

\* The text and the tables with a non-empty row among children that are
\* strings and tables, in order.
RECURSIVE ChildTokens(_, _)
ChildTokens(children, anc) ==
  IF children = <<>> THEN <<>>
  ELSE (IF ~IsTag(Head(children)) THEN Letters(Head(children).text)
        ELSE IF HasNonEmptyRow([el |-> Head(children), anc |-> anc])
        THEN <<"<table>">>
        ELSE <<>>)
         \o ChildTokens(Tail(children), anc)

\* C4: when _process_structured_content returns, the Table nodes of its
\* result are the nodes of the tables below the element that have a
\* non-empty row, one each and in document order; and for an element
\* whose children are strings and tables the text and the tables of the
\* result are in the order of the children.
TablesKeptInOrder ==
  (/\ ret # None
   /\ ret[1].fn = "_process_structured_content"
   /\ ret[1].kind = "return")
    => LET path == ret[1].path
           element == ElementAt(body[1], path)
           out == extend(<<>>, ret[1].value)
           out_tables == SelectSeq(out, LAMBDA n : n.type = "table")
           tables == TablesBelow(path)
       IN /\ Len(out_tables) = Len(tables)
          /\ \A k \in 1..Len(tables) :
               process_table(tables[k].el, tables[k].anc)
                 = Returned(Some(out_tables[k]))
          /\ (\A k \in 1..Len(element.children) :
                ~IsTag(element.children[k])
                  \/ element.children[k].name = "table")
               => NodeTokens(out)
                    = ChildTokens(element.children,
                                  Append(AncNames(body[1], path),
                                         element.name))

\* The part of C4 about elements whose children are strings and tables
\* only: every such table is a node of its own and the order is kept.
FlatContentKeptInOrder ==
  (/\ ret # None
   /\ ret[1].fn = "_process_structured_content"
   /\ ret[1].kind = "return"
   /\ \A k \in 1..Len(ElementAt(body[1], ret[1].path).children) :
        LET c == ElementAt(body[1], ret[1].path).children[k]
        IN ~IsTag(c) \/ (c.name = "table" /\ c # NestedTable))
    => LET path == ret[1].path
           element == ElementAt(body[1], path)
           out == extend(<<>>, ret[1].value)
       IN /\ Len(SelectSeq(out, LAMBDA n : n.type = "table"))
               = Len(TablesBelow(path))
          /\ NodeTokens(out)
               = ChildTokens(element.children,
                             Append(AncNames(body[1], path), element.name))

\* The calls of _process_element that have pushed their frame, outermost
\* first.
Pushed ==
  SelectSeq(frames, LAMBDA f : f.fn = "_process_element" /\ f.pc # "enter")

\* The style parsed from the style attribute of the element of the k-th
\* of these calls.
OwnStyle(k) == parse_style(ElementAt(body[1], Pushed[k].path).style)

\* The value of field f in the first of a, b, c in which it is present.
FirstPresent(f, a, b, c) ==
  IF a[f] # None THEN a[f] ELSE IF b[f] # None THEN b[f] ELSE c[f]

\* C12: style_stack holds one frame per running call that has pushed, each
\* the element's own parsed style merged over the frame below it; and for
\* an element a inside b inside the frame c, merging is associative and
\* every field of the frame of a is that of the first of a, b, c in which
\* the field is present.
NearestAncestorWins ==
  parse_pc = "running" =>
    /\ Len(style_stack) = Len(Pushed)
    /\ \A k \in 1..Len(Pushed) :
         /\ style_stack[k] =
              IF k = 1 THEN OwnStyle(k)
              ELSE merge(OwnStyle(k), Some(style_stack[k - 1]))
         /\ k >= 3 =>
              LET a == OwnStyle(k)
                  b == OwnStyle(k - 1)
                  c == style_stack[k - 2]
              IN /\ merge(a, Some(merge(b, Some(c))))
                      = merge(merge(a, Some(b)), Some(c))
                 /\ \A f \in Fields :
                      style_stack[k][f] = FirstPresent(f, a, b, c)

\* Three frames are on the stack; one field is present and falsy on the
\* innermost element and present with another value on its parent, and
\* another field comes from the outermost of the three only.
NearestAncestorWinsWitness ==
  /\ parse_pc = "running"
  /\ Len(Pushed) >= 3
  /\ Len(style_stack) = Len(Pushed)
  /\ \E f, g \in Fields :
       /\ OwnStyle(3)[f] # None
       /\ ~Truthy(f, OwnStyle(3)[f])
       /\ OwnStyle(2)[f] # None
       /\ OwnStyle(2)[f] # OwnStyle(3)[f]
       /\ OwnStyle(3)[g] = None
       /\ OwnStyle(2)[g] = None
       /\ style_stack[1][g] # None
       /\ style_stack[3][g] = style_stack[1][g]

\* C21: the body made of <h2 style="font-size:14pt">Title</h2>,
\* <p>Hello <b>world</b></p> and a table of one row with the cells
\* <td>A</td> and <td colspan="2" style="text-align:right">99%</td> parses
\* to three nodes: a heading of level 2 'Title', a text block 'Hello world'
\* and a table of one row, not a header, with the cells 'A' (left),
\* '' (right) and '99%' (right, is_currency false).
ParsesExample ==
  body = Some(ExampleBody) =>
    /\ parse_pc # "raised"
    /\ parse_pc = "done" =>
         /\ document # None
         /\ Len(document[1]) = 3
         /\ document[1][1].type = "heading"
         /\ document[1][1].level = 2
         /\ document[1][1].content = <<"T", "i", "t", "l", "e">>
         /\ document[1][2].type = "text_block"
         /\ document[1][2].content =
              <<"H", "e", "l", "l", "o", " ", "w", "o", "r", "l", "d">>
         /\ document[1][3].type = "table"
         /\ Len(document[1][3].content) = 1
         /\ ~document[1][3].content[1].is_header
         /\ Len(document[1][3].content[1].cells) = 3
         /\ document[1][3].content[1].cells[1].content = <<"A">>
         /\ document[1][3].content[1].cells[1].align = "left"
         /\ document[1][3].content[1].cells[2].content = <<>>
         /\ document[1][3].content[1].cells[2].align = "right"
         /\ document[1][3].content[1].cells[3].content = <<"9", "9", "%">>
         /\ document[1][3].content[1].cells[3].align = "right"
         /\ ~document[1][3].content[1].cells[3].is_currency

\* parse has returned for the example.
ParsesExampleWitness == body = Some(ExampleBody) /\ parse_pc = "done"

\* A div without a table below it whose children are a div styled
\* float:left and a string.
MarkerThenText(el) ==
  /\ el.name = "div"
  /\ Len(el.children) = 2
  /\ el.children[1].name = "div"
  /\ StyleContains(el.children[1].style, "float", "left")
  /\ ~IsTag(el.children[2])
  /\ Strip(el.children[2].text) # <<>>

\* C23: in content-combining mode a child div styled float:left gives no
\* node of its own: its stripped text with one space after it goes into
\* the text buffer, which is not flushed, so the div around a marker and a
\* string returns one TextBlock holding the marker, the space, the
\* separator of the buffer and the string.
BulletMarkerJoinsText ==
  (/\ ret # None
   /\ ret[1].kind = "return"
   /\ ret[1].fn = "_process_element"
   /\ ret[1].path \notin has_table
   /\ MarkerThenText(ElementAt(body[1], ret[1].path)))
    => /\ ret[1].value # None
       /\ ret[1].value[1].type = "text_block"
       /\ ret[1].value[1].content =
            Strip(get_text(ElementAt(body[1], ret[1].path).children[1]))
              \o <<" ", " ">>
              \o Strip(ElementAt(body[1], ret[1].path).children[2].text)

\* C17: when the root has a body, parse never ends with an exception, and
\* when it ends it has returned a Document.
ParseNeverRaises ==
  body # None =>
    /\ parse_pc # "raised"
    /\ parse_pc = "done" => document # None

\* C18: without a body parse returns None, no Document and no nodes, without
\* raising; no call of the traversal is made and style_stack stays empty.
NoBodyNoDocument ==
  body = None =>
    /\ parse_pc \in {"start", "done"}
    /\ document = None
    /\ ret = None
    /\ frames = <<>>
    /\ has_table = {}
    /\ style_stack = <<>>

\* parse has returned for a root without a body.
NoBodyNoDocumentWitness == body = None /\ parse_pc = "done"

(***************************************************************************)
(* The side-effect-free functions, each applied once to arguments drawn   *)
(* from bounded sets.                                                      *)
(***************************************************************************)
MaxWidthSteps == 20

Units == {"in", "pt", "px", "cm", "mm", "%"}

\* Width values: the small ones, and the multiples of 50 that take every
\* unit past the console width (7 in, 500 pt, 700 px, 50 cm, 200 mm, 150 %).
WidthValues == (0..3) \cup {50 * k : k \in 1..MaxWidthSteps}

ConsoleWidths == {0, 1, 40, 80, 120}

ToCharsCalls ==
  {[fn |-> "to_chars", self |-> Width(v, u), console_width |-> cw] :
     v \in WidthValues, u \in Units, cw \in ConsoleWidths}

Calling(fn) == call # None /\ call[1].fn = fn /\ call_ret = None
Called(fn) == call # None /\ call[1].fn = fn /\ call_ret # None

MaxHeaderWords == 9

\* A text of n one-letter words.
RECURSIVE WordsText(_)
WordsText(n) ==
  IF n = 1 THEN <<"w">> ELSE WordsText(n - 1) \o <<" ", "w">>

HeaderChildren ==
  {<<Text(WordsText(n))>> : n \in 1..MaxHeaderWords}
    \cup {<<>>,
          <<Text(<<" ">>)>>,
          <<Tag("span", <<>>, <<Text(<<"t">>)>>)>>,
          <<Tag("b", <<>>, <<Tag("span", <<>>, <<Text(<<"t">>)>>)>>)>>,
          <<Tag("b", <<>>, <<Text(<<"t">>)>>)>>,
          <<Text(<<"t">>), Tag("p", <<>>, <<Text(<<"u">>)>>)>>,
          <<Tag("h2", <<>>, <<Text(<<"t">>)>>)>>,
          <<Text(<<"t">>),
            Tag("table", <<>>,
                <<Tag("tr", <<>>, <<Tag("td", <<>>, <<Text(<<"c">>)>>)>>)>>)>>,
          <<Tag("font", <<>>,
                <<Tag("p", <<>>,
                      <<Tag("table", <<>>, <<>>), Text(<<"t">>)>>)>>)>>}

HeaderStyles ==
  {[StyleInfo EXCEPT !.font_weight = w, !.margin_top = mt, !.font_size = fs] :
     w \in {None, Some(""), Some("bold"), Some("700"), Some("900"),
            Some("normal"), Some("600")},
     mt \in {None, Some(0), Some(1800), Some(1900)},
     fs \in {None, Some(1199), Some(1200)}}

LooksLikeHeaderCalls ==
  {[fn |-> "_looks_like_header", element |-> Tag("div", <<>>, ch),
    style |-> st] : ch \in HeaderChildren, st \in HeaderStyles}

LevelStyles ==
  {[StyleInfo EXCEPT !.font_weight = w, !.font_size = fs] :
     w \in {None, Some(""), Some("bold"), Some("700"), Some("800"),
            Some("900"), Some("normal")},
     fs \in {None, Some(0), Some(1000), Some(1199), Some(1200), Some(1399),
             Some(1400), Some(1799), Some(1800), Some(2400)}}

HeadingLevelCalls ==
  {[fn |-> "_determine_heading_level", style |-> st] :
     st \in {None} \cup {Some(x) : x \in LevelStyles}}

NodeTypes == {"heading", "text_block", "table"}

\* Contents, each written as its Python literal: a str, a list of one
\* TableRow, an empty list and a list of str.
NodeContents ==
  {PyValue("str", "'a'"),
   PyValue("List[TableRow]", "[TableRow(cells=[TableCell(content='c')])]"),
   PyValue("List[TableRow]", "[]"),
   PyValue("List[str]", "['a']")}

CreateNodeCalls ==
  {[fn |-> "create_node", type_ |-> t, content |-> c, style |-> StyleInfo,
    level |-> l, metadata |-> md] :
     t \in NodeTypes \cup {"paragraph"}, c \in NodeContents, l \in {1, 2},
     md \in {None, Some({}), Some({<<"k", "v">>})}}

ConstructorCalls ==
  {[fn |-> "__init__", class |-> k, type_ |-> t, content |-> c,
    style |-> StyleInfo, level |-> 1, metadata |-> {}] :
     k \in {"BaseNode", "DocumentNode"}, t \in NodeTypes, c \in NodeContents}

ValidateContentCalls ==
  {[fn |-> "_validate_content",
    self |-> DocumentNode(t, c, StyleInfo, 0)] :
     t \in NodeTypes, c \in NodeContents}

\* Widths far apart and close together, in equal and in different units.
MergeWidths ==
  {None} \cup
    {Some(Width(v, "px")) : v \in {10, 50, 96, 100}}
    \cup {Some(Width(v, "in")) : v \in {1, 2}}
    \cup {Some(Width(v, "pt")) : v \in {12, 72}}
    \cup {Some(Width(3, "cm")), Some(Width(20, "mm")), Some(Width(50, "%"))}

MergeStylesCalls ==
  {[fn |-> "merge_styles",
    style1 |-> [StyleInfo EXCEPT !.width = w1, !.text_align = a1],
    style2 |-> [StyleInfo EXCEPT !.width = w2, !.text_align = a2]] :
     w1 \in MergeWidths, w2 \in MergeWidths,
     a1 \in {None, Some("left")}, a2 \in {None, Some("left")}}

\* call_ret = self.to_chars(console_width)
CallToChars ==
  /\ Calling("to_chars")
  /\ call_ret' = Some(to_chars(call[1].self, call[1].console_width))
  /\ UNCHANGED call

\* call_ret = create_node(type_, content, style, level, metadata)
CallCreateNode ==
  /\ Calling("create_node")
  /\ call_ret' = Some(create_node(call[1].type_, call[1].content,
                                  call[1].style, call[1].level,
                                  call[1].metadata))
  /\ UNCHANGED call

\* call_ret = HeadingNode(...), TextBlockNode(...), TableNode(...) (the
\* subclass of BaseNode whose type is type_) or DocumentNode(type_, ...):
\* the __init__ a dataclass generates.
CallConstructor ==
  /\ Calling("__init__")
  /\ call_ret' =
       Some(Returned(
         IF call[1].class = "DocumentNode"
         THEN DocumentNode(call[1].type_, call[1].content, call[1].style,
                           call[1].level)
         ELSE CASE call[1].type_ = "heading" ->
                     HeadingNode(call[1].content, call[1].style,
                                 call[1].level, call[1].metadata)
                [] call[1].type_ = "text_block" ->
                     TextBlockNode(call[1].content, call[1].style,
                                   call[1].metadata)
                [] call[1].type_ = "table" ->
                     TableNode(call[1].content, call[1].style,
                               call[1].metadata)))
  /\ UNCHANGED call

\* call_ret = self._validate_content()
CallValidateContent ==
  /\ Calling("_validate_content")
  /\ call_ret' = Some(validate_content(call[1].self))
  /\ UNCHANGED call

\* call_ret = merge_styles(style1, style2)
CallMergeStyles ==
  /\ Calling("merge_styles")
  /\ call_ret' = Some(merge_styles(call[1].style1, call[1].style2))
  /\ UNCHANGED call

\* call_ret = self._looks_like_header(element, style)
CallLooksLikeHeader ==
  /\ Calling("_looks_like_header")
  /\ call_ret' = Some(looks_like_header(call[1].element, call[1].style))
  /\ UNCHANGED call

\* call_ret = self._determine_heading_level(style)
CallDetermineHeadingLevel ==
  /\ Calling("_determine_heading_level")
  /\ call_ret' = Some(determine_heading_level(call[1].style))
  /\ UNCHANGED call

InitCalls ==
  /\ ParseIdle
  /\ StyleIdle
  /\ MergeIdle
  /\ TableIdle
  /\ call_ret = None
  /\ \/ call \in {Some(c) : c \in ToCharsCalls}
     \/ call \in {Some(c) : c \in LooksLikeHeaderCalls}
     \/ call \in {Some(c) : c \in HeadingLevelCalls}
     \/ call \in {Some(c) : c \in CreateNodeCalls}
     \/ call \in {Some(c) : c \in ConstructorCalls}
     \/ call \in {Some(c) : c \in ValidateContentCalls}
     \/ call \in {Some(c) : c \in MergeStylesCalls}

NextCalls ==
  \/ (CallToChars /\ UNCHANGED notCallVars)
  \/ (CallLooksLikeHeader /\ UNCHANGED notCallVars)
  \/ (CallDetermineHeadingLevel /\ UNCHANGED notCallVars)
  \/ (CallCreateNode /\ UNCHANGED notCallVars)
  \/ (CallConstructor /\ UNCHANGED notCallVars)
  \/ (CallValidateContent /\ UNCHANGED notCallVars)
  \/ (CallMergeStyles /\ UNCHANGED notCallVars)

SpecCalls == InitCalls /\ [][NextCalls]_vars

\* C13: for every value and unit, to_chars(console_width) is at most
\* console_width.
ToCharsClamped ==
  Called("to_chars") => call_ret[1] <= call[1].console_width

\* C14: for a fixed console width and unit, a Width with a smaller or equal
\* value never converts to more characters than one with a larger value.
ToCharsMonotone ==
  Called("to_chars") =>
    \A v \in WidthValues :
      v <= call[1].self.value =>
        to_chars(Width(v, call[1].self.unit), call[1].console_width)
          <= call_ret[1]

\* A width that was cut to the console width, above a smaller value of the
\* same unit that converts to fewer characters.
ToCharsMonotoneWitness ==
  /\ Called("to_chars")
  /\ call[1].self.unit # "%"
  /\ call[1].console_width > 0
  /\ call_ret[1] = call[1].console_width
  /\ \E v \in WidthValues :
       /\ 0 < v /\ v < call[1].self.value
       /\ 0 < to_chars(Width(v, call[1].self.unit), call[1].console_width)
       /\ to_chars(Width(v, call[1].self.unit), call[1].console_width)
            < call_ret[1]

\* The names of the tags below an element.
RECURSIVE DescendantNames(_)
DescendantNames(el) ==
  IF ~IsTag(el) THEN {}
  ELSE UNION {({el.children[k].name} \ {"#text"})
                \cup DescendantNames(el.children[k]) :
              k \in 1..Len(el.children)}

\* The six signals of the heading detector for an element and a style.
Signals(el, st) ==
  <<st.font_weight \in {Some(w) : w \in {"bold", "700", "800", "900"}},
    st.margin_top # None /\ st.margin_top[1] > 1800,
    Len(Words(get_text_strip(el))) <= 8,
    "table" \notin DescendantNames(el),
    DescendantNames(el) \cap {"h1", "h2", "h3", "h4", "h5", "h6", "p"} = {},
    st.font_size # None /\ st.font_size[1] * 10 >= 12 * base_font_size>>

SignalCount(el, st) == Cardinality({k \in 1..6 : Signals(el, st)[k]})

\* C15: _looks_like_header returns True exactly when the element has
\* non-empty text, no span below it, the bold signal holds and at least 4 of
\* the 6 signals hold; without the bold signal it returns False.
HeaderIffSignals ==
  Called("_looks_like_header") =>
    /\ call_ret[1] =
         (/\ get_text_strip(call[1].element) # <<>>
          /\ "span" \notin DescendantNames(call[1].element)
          /\ Signals(call[1].element, call[1].style)[1]
          /\ SignalCount(call[1].element, call[1].style) >= 4)
    /\ ~Signals(call[1].element, call[1].style)[1] => call_ret[1] = FALSE

\* A header found with exactly four signals, the bold one among them.
HeaderIffSignalsWitness ==
  /\ Called("_looks_like_header")
  /\ call_ret[1] = TRUE
  /\ SignalCount(call[1].element, call[1].style) = 4

\* Five signals without the bold one: not a header.
HeaderNeedsBoldWitness ==
  /\ Called("_looks_like_header")
  /\ call_ret[1] = FALSE
  /\ SignalCount(call[1].element, call[1].style) = 5
  /\ ~Signals(call[1].element, call[1].style)[1]
  /\ get_text_strip(call[1].element) # <<>>
  /\ "span" \notin DescendantNames(call[1].element)

\* C16: for a style, _determine_heading_level is 1 when font_size / base is
\* at least 1.8, 2 when it is at least 1.4, 3 when it is at least 1.2,
\* otherwise 3 for a font weight of bold, 700, 800 or 900 and 4 for any
\* other; the level is always in 1..4.
HeadingLevelRule ==
  Called("_determine_heading_level") =>
    /\ call_ret[1] \in 1..4
    /\ call[1].style # None =>
         LET st == call[1].style[1]
             sized == st.font_size # None
             fs == st.font_size[1]
         IN call_ret[1] =
              IF sized /\ fs * 10 >= 18 * base_font_size THEN 1
              ELSE IF sized /\ fs * 10 >= 14 * base_font_size THEN 2
              ELSE IF sized /\ fs * 10 >= 12 * base_font_size THEN 3
              ELSE IF st.font_weight \in
                        {Some("bold"), Some("700"), Some("800"), Some("900")}
              THEN 3
              ELSE 4

\* A font size exactly 1.4 times the base gives level 2.
HeadingLevelRuleWitness ==
  /\ Called("_determine_heading_level")
  /\ call[1].style # None
  /\ call[1].style[1].font_size = Some(1400)
  /\ call_ret[1] = 2

\* A bold style without a font size gives level 3, a plain one level 4.
HeadingLevelBoldWitness ==
  /\ Called("_determine_heading_level")
  /\ call[1].style # None
  /\ call[1].style[1].font_size = None
  /\ call[1].style[1].font_weight = Some("800")
  /\ call_ret[1] = 3

\* The content does not match the variant: no str under a heading or a
\* text_block, no list of TableRow under a table.
ContentMismatch(type, content) ==
  \/ type \in {"heading", "text_block"} /\ content.class # "str"
  \/ type = "table" /\ content.class # "List[TableRow]"

\* C19: create_node and the constructors of the node classes raise a
\* validation error when the content does not match the variant, and
\* create_node raises one for an unknown variant.
ConstructionValidated ==
  (/\ Called("create_node") \/ Called("__init__")
   /\ \/ call[1].type_ \notin NodeTypes
      \/ ContentMismatch(call[1].type_, call[1].content))
    => call_ret[1].kind = "raise"

\* C20: when the two styles merge and both carry a width, the width of the
\* merged style is the one that is larger on the pixel scale.
LargerWidthWins ==
  (/\ Called("merge_styles")
   /\ call_ret[1] # None
   /\ call[1].style1.width # None
   /\ call[1].style2.width # None)
    => /\ call_ret[1][1].width # None
       /\ to_pixels(call_ret[1][1].width[1])
            >= to_pixels(call[1].style1.width[1])
       /\ to_pixels(call_ret[1][1].width[1])
            >= to_pixels(call[1].style2.width[1])

\* C24: once _process_element has marked, every element from the processed
\* one down to the parent of a table below it carries has_table, so a div
\* that _process_element classifies carries the mark exactly when a table
\* lies below it; and a div is in structure-preserving mode only when a
\* table lies below it, also a div child of an ix: element.
DivModeFollowsTables ==
  parse_pc = "running" =>
    \A k \in 1..Len(frames) :
      /\ (frames[k].fn = "_process_element" /\ frames[k].pc # "enter") =>
           \A t \in Paths(body[1]) :
             (/\ ElementAt(body[1], t).name = "table"
              /\ IsProperPrefix(frames[k].path, t)) =>
               \A j \in Len(frames[k].path)..(Len(t) - 1) :
                 SubSeq(t, 1, j) \in has_table
      /\ (/\ frames[k].fn = "_process_element"
          /\ frames[k].pc = "try"
          /\ ElementAt(body[1], frames[k].path).name = "div") =>
           (frames[k].path \in has_table
              <=> "table" \in
                    DescendantNames(ElementAt(body[1], frames[k].path)))
      /\ (/\ frames[k].fn = "_process_structured_content"
          /\ ElementAt(body[1], frames[k].path).name = "div") =>
           "table" \in DescendantNames(ElementAt(body[1], frames[k].path))

\* C27: every Heading of the Document is the node of an h1..h6 element of
\* the body, with the element's stripped text and the level that is the
\* digit of its tag; a div makes no Heading, also one that
\* _looks_like_header would accept.
HeadingsFromTagsOnly ==
  (parse_pc = "done" /\ document # None) =>
    \A k \in 1..Len(document[1]) :
      document[1][k].type = "heading" =>
        \E q \in Paths(body[1]) :
          /\ ElementAt(body[1], q).name \in
               {"h1", "h2", "h3", "h4", "h5", "h6"}
          /\ document[1][k].level = HeadingLevel(ElementAt(body[1], q).name)
          /\ document[1][k].content = get_text_strip(ElementAt(body[1], q))

\* A Document for a body with a div that _looks_like_header accepts, and
\* no Heading in it.
HeadingsFromTagsOnlyWitness ==
  /\ parse_pc = "done"
  /\ document # None
  /\ document[1] # <<>>
  /\ \E k \in 1..Len(body[1].children) :
       /\ body[1].children[k].name = "div"
       /\ looks_like_header(body[1].children[k],
                            parse_style(body[1].children[k].style))
  /\ \A k \in 1..Len(document[1]) : document[1][k].type # "heading"

\* A Document with the Heading of an h2 element.
HeadingFromTagWitness ==
  /\ parse_pc = "done"
  /\ document # None
  /\ \E k \in 1..Len(document[1]) :
       document[1][k].type = "heading" /\ document[1][k].level = 2

\* The nodes of the value a call returned: none, one node, or a list.
ReturnedNodes(value) ==
  IF value = None THEN <<>>
  ELSE IF value[1].type = "list" THEN value[1].items
  ELSE <<value[1]>>

\* Every TextBlock of `ns` has content that str.strip() leaves non-empty.
NoBlankTextBlock(ns) ==
  \A k \in 1..Len(ns) :
    ns[k].type = "text_block" => Strip(ns[k].content) # <<>>

\* C28: every TextBlock that a step of the traversal returns, and every
\* TextBlock of the Document after the merge pass, has content that is
\* neither empty nor all whitespace.
TextBlocksNotBlank ==
  /\ (ret # None /\ ret[1].kind = "return") =>
       NoBlankTextBlock(ReturnedNodes(ret[1].value))
  /\ (parse_pc = "done" /\ document # None) => NoBlankTextBlock(document[1])

\* A Document with a TextBlock for a body whose div starts with a br: the
\* buffer flushed before the paragraph held a line break only.
TextBlocksNotBlankWitness ==
  /\ parse_pc = "done"
  /\ document # None
  /\ \E k \in 1..Len(document[1]) : document[1][k].type = "text_block"
  /\ \E k \in 1..Len(body[1].children) :
       /\ body[1].children[k].name = "div"
       /\ Len(body[1].children[k].children) = 2
       /\ body[1].children[k].children[1].name = "br"
       /\ body[1].children[k].children[2].name = "p"
====
